---- MODULE Spec2Model ----
(***************************************************************************)
(* The synchronization engine of the collaborative whiteboard: the         *)
(* useWhiteboard hook (one instance per client), the broadcast channel     *)
(* and the presence registry it talks to.                                  *)
(*                                                                         *)
(* A value that may be null (currentStroke, a presence record) is a        *)
(* sequence of length 0 (null) or 1.  The uuid of a stroke is the pair of   *)
(* the client that made it and the serial number of the uuidv4() call      *)
(* among that client's, so two uuids never collide.                        *)
(***************************************************************************)
EXTENDS Integers, Sequences, FiniteSets, Bags, TLC

\* ------------------------------------------------------------------ bounds
\* uuidv4() calls for strokes in a whole run (strokes begun, all clients).
MaxStrokes == 2
\* Messages in flight at a time (one copy per receiver).
MaxNet == 2
\* The subscriptions of a drawn registry lie within MaxSkew ms of each other.
MaxSkew == 2
\* The pointer is followed for MaxElapsed ms, an event every PointerMs ms.
MaxElapsed == 200
PointerMs == 10

\* --------------------------------------------------------------- constants
COLORS_BLACK == "#000000"
COLORS_ERASER == "#FFFFFF"
WIDTHS_PEN == 4
WIDTHS_ERASER == 20
ThrottleMs == 50

\* The users of the room, each named by the uuid of its session.
Clients == {"A", "B", "C"}

\* Date.now() when the first client opens the page (just before a second
\* boundary, so that timestamps differ in their seconds and milliseconds).
StartTime == 1999

\* The pointer positions, tools and display names the users choose from.
Positions == {[x |-> 0, y |-> 0], [x |-> 10, y |-> 20]}
Tools == {[color |-> COLORS_BLACK, width |-> WIDTHS_PEN],
          [color |-> COLORS_ERASER, width |-> WIDTHS_ERASER]}
Names == {"Ann"}

None == <<>>
Some(x) == <<x>>

VARIABLES
  strokes,            \* useState<Stroke[]>: the replication log
  currentStroke,      \* useState<Stroke | null>: the in-progress slot
  peers,              \* useState<UserCursor[]>
  activeUsers,        \* useState<string[]>
  currentUser,        \* useState: {id, name, color, width}
  lastCursorUpdate,   \* useRef(0)
  strokesRef,         \* useRef<Stroke[]>([]), copied from strokes by an effect
  hasRequestedState,  \* useRef(false)
  status,             \* "mounted" | "joined" | "left"
  presence,           \* the registry: what each client last tracked, or null
  presenceState,      \* channel.presenceState(): each client's copy of it
  net,                \* the bag of broadcast copies in flight
  sent,               \* the bag of channel.send calls made so far
  now,                \* Date.now()
  trail,              \* the pointer positions of each user's press in progress
  uuids               \* uuidv4() calls each client made so far for strokes

vars == <<strokes, currentStroke, peers, activeUsers, currentUser,
          lastCursorUpdate, strokesRef, hasRequestedState, status, presence,
          presenceState, net, sent, now, trail, uuids>>

hookVars == <<strokes, currentStroke, peers, activeUsers, currentUser,
              lastCursorUpdate, strokesRef, hasRequestedState>>

\* ----------------------------------------------------------------- helpers
\* new Date(ms).toISOString(): the timestamp as text, seconds and milliseconds.
ToISOString(ms) == [secs |-> ms \div 1000, millis |-> ms % 1000]

\* new Date(iso).getTime()
GetTime(iso) == iso.secs * 1000 + iso.millis

\* The sequences that list every element of the set S once: the orders in
\* which `for (const key in state)` may meet the presence keys.
RECURSIVE Enumerations(_)
Enumerations(S) ==
  IF S = {} THEN {<<>>}
  ELSE UNION {{<<e>> \o rest : rest \in Enumerations(S \ {e})} : e \in S}

\* The comparator of the req-state handler: timeA - timeB.
ByOnlineAt(a, b) == GetTime(a.online_at) - GetTime(b.online_at)

\* Array.prototype.sort with that comparator: a stable sort, by insertion.
RECURSIVE InsertSorted(_, _)
InsertSorted(e, sorted) ==
  IF sorted = <<>> THEN <<e>>
  ELSE IF ByOnlineAt(Head(sorted), e) <= 0
       THEN <<Head(sorted)>> \o InsertSorted(e, Tail(sorted))
       ELSE <<e>> \o sorted

RECURSIVE SortByOnlineAt(_)
SortByOnlineAt(seq) ==
  IF seq = <<>> THEN <<>>
  ELSE InsertSorted(seq[Len(seq)], SortByOnlineAt(SubSeq(seq, 1, Len(seq) - 1)))

\* An election that takes the first record as enumerated, without the sort.
ElectHostUnsorted(allPresences) ==
  IF Len(allPresences) > 0 THEN Some(allPresences[1].user_id) ELSE None

\* The first record after the sort, or null: who answers a req-state.
ElectHost(allPresences) ==
  LET sorted == SortByOnlineAt(allPresences)
  IN IF Len(sorted) > 0 THEN Some(sorted[1].user_id) ELSE None

\* ---------------------------------------------------------------- channel
\* The records of the registry, as a set.
Registry == {presence[c][1] : c \in {d \in Clients : presence[d] # None}}

\* Who receives a broadcast of client c: every other subscribed client.
Receivers(c) == {d \in Clients \ {c} : status[d] = "joined"}

Message(event, payload) == [event |-> event, payload |-> payload]

\* The copies of one broadcast, one per receiver.
Copies(c, msg) ==
  LET rs == Receivers(c)
  IN [m \in {[to |-> d, event |-> msg.event, payload |-> msg.payload] : d \in rs}
        |-> 1]

\* Room in network n for one more broadcast of client c.
HasRoom(n, c) == BagCardinality(n) + Cardinality(Receivers(c)) <= MaxNet

\* channel.send({type: 'broadcast', event, payload}): the network after it,
\* and the record of the calls after it.
Broadcast(n, c, msg) == n (+) Copies(c, msg)

Recorded(c, msg) ==
  sent (+) SetToBag({[from |-> c, event |-> msg.event, payload |-> msg.payload]})

\* The copies in flight to client c.
Inbox(c) == {m \in BagToSet(net) : m.to = c}

\* Network n without one copy of m.
Taken(n, m) == n (-) SetToBag({m})

\* ------------------------------------------------------------------- init
\* An initial state whose hasRequestedState is set from the start.
InitRequested ==
  /\ strokes = [c \in Clients |-> <<>>]
  /\ currentStroke = [c \in Clients |-> None]
  /\ peers = [c \in Clients |-> <<>>]
  /\ activeUsers = [c \in Clients |-> <<>>]
  /\ currentUser = [c \in Clients |->
       [id |-> c, name |-> "", color |-> COLORS_BLACK, width |-> WIDTHS_PEN]]
  /\ lastCursorUpdate = [c \in Clients |-> 0]
  /\ strokesRef = [c \in Clients |-> <<>>]
  /\ hasRequestedState = [c \in Clients |-> TRUE]
  /\ status = [c \in Clients |-> "mounted"]
  /\ presence = [c \in Clients |-> None]
  /\ presenceState = [c \in Clients |-> {}]
  /\ net = EmptyBag
  /\ sent = EmptyBag
  /\ now = StartTime
  /\ trail = [c \in Clients |-> <<>>]
  /\ uuids = [c \in Clients |-> 0]

\* The state after useWhiteboard's first render, for every client.
Init ==
  /\ strokes = [c \in Clients |-> <<>>]
  /\ currentStroke = [c \in Clients |-> None]
  /\ peers = [c \in Clients |-> <<>>]
  /\ activeUsers = [c \in Clients |-> <<>>]
  /\ currentUser = [c \in Clients |->
       [id |-> c, name |-> "", color |-> COLORS_BLACK, width |-> WIDTHS_PEN]]
  /\ lastCursorUpdate = [c \in Clients |-> 0]
  /\ strokesRef = [c \in Clients |-> <<>>]
  /\ hasRequestedState = [c \in Clients |-> FALSE]
  /\ status = [c \in Clients |-> "mounted"]
  /\ presence = [c \in Clients |-> None]
  /\ presenceState = [c \in Clients |-> {}]
  /\ net = EmptyBag
  /\ sent = EmptyBag
  /\ now = StartTime
  /\ trail = [c \in Clients |-> <<>>]
  /\ uuids = [c \in Clients |-> 0]

\* ------------------------------------------------------- the hook's calls
Alive(c) == status[c] = "joined"

\* uuidv4() calls made so far, by all clients.
RECURSIVE SumOver(_, _)
SumOver(f, S) ==
  IF S = {} THEN 0
  ELSE LET e == CHOOSE x \in S : TRUE IN f[e] + SumOver(f, S \ {e})

UuidsMade == SumOver(uuids, Clients)

\* A startDrawing that takes the default pen whatever tool is selected.
StartDrawingDefaultPen(c, x, y) ==
  /\ Alive(c)
  /\ UuidsMade < MaxStrokes
  /\ uuids' = [uuids EXCEPT ![c] = @ + 1]
  /\ currentStroke' = [currentStroke EXCEPT ![c] = Some(
       [id |-> <<c, uuids[c] + 1>>,
        userId |-> currentUser[c].id,
        color |-> COLORS_BLACK,
        width |-> WIDTHS_PEN,
        points |-> <<[x |-> x, y |-> y]>>])]
  /\ trail' = [trail EXCEPT ![c] = <<[x |-> x, y |-> y]>>]
  /\ UNCHANGED <<strokes, peers, activeUsers, currentUser, lastCursorUpdate,
                 strokesRef, hasRequestedState, status, presence,
                 presenceState, net, sent, now>>

\* A startDrawing that commits the stroke it finds in the slot before it
\* opens the new one.
StartDrawingCommitsOld(c, x, y) ==
  /\ Alive(c)
  /\ UuidsMade < MaxStrokes
  /\ uuids' = [uuids EXCEPT ![c] = @ + 1]
  /\ IF currentStroke[c] # None
     THEN LET prev == currentStroke[c][1]
              msg == Message("draw-line", prev)
          IN /\ HasRoom(net, c)
             /\ strokes' = [strokes EXCEPT ![c] = Append(@, prev)]
             /\ net' = Broadcast(net, c, msg)
             /\ sent' = Recorded(c, msg)
     ELSE UNCHANGED <<strokes, net, sent>>
  /\ currentStroke' = [currentStroke EXCEPT ![c] = Some(
       [id |-> <<c, uuids[c] + 1>>,
        userId |-> currentUser[c].id,
        color |-> currentUser[c].color,
        width |-> currentUser[c].width,
        points |-> <<[x |-> x, y |-> y]>>])]
  /\ trail' = [trail EXCEPT ![c] = <<[x |-> x, y |-> y]>>]
  /\ UNCHANGED <<peers, activeUsers, currentUser, lastCursorUpdate,
                 strokesRef, hasRequestedState, status, presence,
                 presenceState, now>>

\* startDrawing(x, y)
StartDrawing(c, x, y) ==
  /\ Alive(c)
  /\ UuidsMade < MaxStrokes
  /\ uuids' = [uuids EXCEPT ![c] = @ + 1]
  /\ currentStroke' = [currentStroke EXCEPT ![c] = Some(
       [id |-> <<c, uuids[c] + 1>>,
        userId |-> currentUser[c].id,
        color |-> currentUser[c].color,
        width |-> currentUser[c].width,
        points |-> <<[x |-> x, y |-> y]>>])]
  /\ trail' = [trail EXCEPT ![c] = <<[x |-> x, y |-> y]>>]
  /\ UNCHANGED <<strokes, peers, activeUsers, currentUser, lastCursorUpdate,
                 strokesRef, hasRequestedState, status, presence,
                 presenceState, net, sent, now>>

\* An updater of draw that keeps the new point only.
DrawUpdaterLastPoint(prev, x, y) ==
  IF prev = None THEN None
  ELSE Some([prev[1] EXCEPT !.points = <<[x |-> x, y |-> y]>>])

\* The setCurrentStroke updater of draw: null stays null, else one more point.
DrawUpdater(prev, x, y) ==
  IF prev = None THEN None
  ELSE Some([prev[1] EXCEPT !.points = Append(@, [x |-> x, y |-> y])])

\* A gate that opens as soon as ThrottleMs have passed.
ThrottleOpenAtLeast(c) == now - lastCursorUpdate[c] >= ThrottleMs

\* The gate of the cursor broadcast.
ThrottleOpen(c) == now - lastCursorUpdate[c] > ThrottleMs

\* A cursor broadcast that does not note when it sent.
CursorBroadcastUnstamped(c, x, y) ==
  IF ThrottleOpen(c)
  THEN LET msg == Message("cursor-move",
                    [id |-> currentUser[c].id, x |-> x, y |-> y,
                     name |-> currentUser[c].name])
       IN /\ HasRoom(net, c)
          /\ net' = Broadcast(net, c, msg)
          /\ sent' = Recorded(c, msg)
          /\ UNCHANGED lastCursorUpdate
  ELSE UNCHANGED <<net, sent, lastCursorUpdate>>

\* A cursor broadcast that notes the time of every pointer-move, sent or not.
CursorBroadcastRestamps(c, x, y) ==
  IF ThrottleOpen(c)
  THEN LET msg == Message("cursor-move",
                    [id |-> currentUser[c].id, x |-> x, y |-> y,
                     name |-> currentUser[c].name])
       IN /\ HasRoom(net, c)
          /\ net' = Broadcast(net, c, msg)
          /\ sent' = Recorded(c, msg)
          /\ lastCursorUpdate' = [lastCursorUpdate EXCEPT ![c] = now]
  ELSE /\ UNCHANGED <<net, sent>>
       /\ lastCursorUpdate' = [lastCursorUpdate EXCEPT ![c] = now]

\* The throttled cursor broadcast of draw and of moveCursor.
CursorBroadcast(c, x, y) ==
  IF ThrottleOpen(c)
  THEN LET msg == Message("cursor-move",
                    [id |-> currentUser[c].id, x |-> x, y |-> y,
                     name |-> currentUser[c].name])
       IN /\ HasRoom(net, c)
          /\ net' = Broadcast(net, c, msg)
          /\ sent' = Recorded(c, msg)
          /\ lastCursorUpdate' = [lastCursorUpdate EXCEPT ![c] = now]
  ELSE UNCHANGED <<net, sent, lastCursorUpdate>>

\* draw(x, y).  Within one press the pointer comes to a position once.
Draw(c, x, y) ==
  /\ Alive(c)
  /\ \A i \in 1..Len(trail[c]) : trail[c][i] # [x |-> x, y |-> y]
  /\ currentStroke' = [currentStroke EXCEPT ![c] = DrawUpdater(@, x, y)]
  /\ trail' = [trail EXCEPT ![c] = IF @ = <<>> THEN @ ELSE Append(@, [x |-> x, y |-> y])]
  /\ CursorBroadcast(c, x, y)
  /\ UNCHANGED <<strokes, peers, activeUsers, currentUser, strokesRef,
                 hasRequestedState, status, presence, presenceState, now, uuids>>

\* moveCursor(x, y)
MoveCursor(c, x, y) ==
  /\ Alive(c)
  /\ CursorBroadcast(c, x, y)
  /\ UNCHANGED <<strokes, currentStroke, peers, activeUsers, currentUser,
                 strokesRef, hasRequestedState, status, presence,
                 presenceState, now, trail, uuids>>

\* An endDrawing that broadcasts the stroke with its first point only.
EndDrawingFirstPoint(c) ==
  /\ Alive(c)
  /\ IF currentStroke[c] # None
     THEN LET prev == currentStroke[c][1]
              msg == Message("draw-line", [prev EXCEPT !.points = <<Head(@)>>])
          IN /\ HasRoom(net, c)
             /\ strokes' = [strokes EXCEPT ![c] = Append(@, prev)]
             /\ net' = Broadcast(net, c, msg)
             /\ sent' = Recorded(c, msg)
     ELSE UNCHANGED <<strokes, net, sent>>
  /\ currentStroke' = [currentStroke EXCEPT ![c] = None]
  /\ trail' = [trail EXCEPT ![c] = <<>>]
  /\ UNCHANGED <<peers, activeUsers, currentUser, lastCursorUpdate, strokesRef,
                 hasRequestedState, status, presence, presenceState, now, uuids>>

\* An endDrawing that leaves the stroke in the slot.
EndDrawingKeepsSlot(c) ==
  /\ Alive(c)
  /\ IF currentStroke[c] # None
     THEN LET prev == currentStroke[c][1]
              msg == Message("draw-line", prev)
          IN /\ HasRoom(net, c)
             /\ strokes' = [strokes EXCEPT ![c] = Append(@, prev)]
             /\ net' = Broadcast(net, c, msg)
             /\ sent' = Recorded(c, msg)
     ELSE UNCHANGED <<strokes, net, sent>>
  /\ UNCHANGED <<currentStroke, trail>>
  /\ UNCHANGED <<peers, activeUsers, currentUser, lastCursorUpdate, strokesRef,
                 hasRequestedState, status, presence, presenceState, now, uuids>>

\* An endDrawing whose eraser stroke takes the last stroke off the log.
EndDrawingErases(c) ==
  /\ Alive(c)
  /\ IF currentStroke[c] # None
     THEN LET prev == currentStroke[c][1]
              msg == Message("draw-line", prev)
          IN /\ HasRoom(net, c)
             /\ strokes' = [strokes EXCEPT ![c] =
                  IF prev.color = COLORS_ERASER /\ @ # <<>>
                  THEN SubSeq(@, 1, Len(@) - 1)
                  ELSE Append(@, prev)]
             /\ net' = Broadcast(net, c, msg)
             /\ sent' = Recorded(c, msg)
     ELSE UNCHANGED <<strokes, net, sent>>
  /\ currentStroke' = [currentStroke EXCEPT ![c] = None]
  /\ trail' = [trail EXCEPT ![c] = <<>>]
  /\ UNCHANGED <<peers, activeUsers, currentUser, lastCursorUpdate, strokesRef,
                 hasRequestedState, status, presence, presenceState, now, uuids>>

\* An endDrawing that keeps the stroke only if the channel takes it to
\* someone.
EndDrawingIfDelivered(c) ==
  /\ Alive(c)
  /\ IF currentStroke[c] # None
     THEN LET prev == currentStroke[c][1]
              msg == Message("draw-line", prev)
          IN /\ HasRoom(net, c)
             /\ strokes' = [strokes EXCEPT ![c] =
                  IF Receivers(c) # {} THEN Append(@, prev) ELSE @]
             /\ net' = Broadcast(net, c, msg)
             /\ sent' = Recorded(c, msg)
     ELSE UNCHANGED <<strokes, net, sent>>
  /\ currentStroke' = [currentStroke EXCEPT ![c] = None]
  /\ trail' = [trail EXCEPT ![c] = <<>>]
  /\ UNCHANGED <<peers, activeUsers, currentUser, lastCursorUpdate, strokesRef,
                 hasRequestedState, status, presence, presenceState, now, uuids>>

\* An endDrawing that commits the stroke with the colour and width selected
\* at the release.
EndDrawingCurrentTool(c) ==
  /\ Alive(c)
  /\ IF currentStroke[c] # None
     THEN LET prev == [currentStroke[c][1] EXCEPT !.color = currentUser[c].color,
                                                  !.width = currentUser[c].width]
              msg == Message("draw-line", prev)
          IN /\ HasRoom(net, c)
             /\ strokes' = [strokes EXCEPT ![c] = Append(@, prev)]
             /\ net' = Broadcast(net, c, msg)
             /\ sent' = Recorded(c, msg)
     ELSE UNCHANGED <<strokes, net, sent>>
  /\ currentStroke' = [currentStroke EXCEPT ![c] = None]
  /\ trail' = [trail EXCEPT ![c] = <<>>]
  /\ UNCHANGED <<peers, activeUsers, currentUser, lastCursorUpdate, strokesRef,
                 hasRequestedState, status, presence, presenceState, now, uuids>>

\* endDrawing()
EndDrawing(c) ==
  /\ Alive(c)
  /\ IF currentStroke[c] # None
     THEN LET prev == currentStroke[c][1]
              msg == Message("draw-line", prev)
          IN /\ HasRoom(net, c)
             /\ strokes' = [strokes EXCEPT ![c] = Append(@, prev)]
             /\ net' = Broadcast(net, c, msg)
             /\ sent' = Recorded(c, msg)
     ELSE UNCHANGED <<strokes, net, sent>>
  /\ currentStroke' = [currentStroke EXCEPT ![c] = None]
  /\ trail' = [trail EXCEPT ![c] = <<>>]
  /\ UNCHANGED <<peers, activeUsers, currentUser, lastCursorUpdate, strokesRef,
                 hasRequestedState, status, presence, presenceState, now, uuids>>

\* A setTool that takes the colour and keeps the width.
SetToolColorOnly(c, color, width) ==
  /\ Alive(c)
  /\ currentUser' = [currentUser EXCEPT ![c].color = color]
  /\ UNCHANGED <<strokes, currentStroke, peers, activeUsers, lastCursorUpdate,
                 strokesRef, hasRequestedState, status, presence,
                 presenceState, net, sent, now, trail, uuids>>

\* setTool(color, width)
SetTool(c, color, width) ==
  /\ Alive(c)
  /\ currentUser' = [currentUser EXCEPT ![c].color = color, ![c].width = width]
  /\ UNCHANGED <<strokes, currentStroke, peers, activeUsers, lastCursorUpdate,
                 strokesRef, hasRequestedState, status, presence,
                 presenceState, net, sent, now, trail, uuids>>

\* channel.track({online_at, user_id, name}) by client c
Tracked(c, name) ==
  [presence EXCEPT ![c] = Some([user_id |-> currentUser[c].id,
                                online_at |-> ToISOString(now),
                                name |-> name])]

\* A setDisplayName that makes a new user object, the name as its id.
SetDisplayNameNewUser(c, name) ==
  /\ Alive(c)
  /\ currentUser' = [currentUser EXCEPT ![c].name = name, ![c].id = name]
  /\ presence' = IF name # currentUser[c].name /\ name # "" /\ status[c] = "joined"
                 THEN Tracked(c, name)
                 ELSE presence
  /\ UNCHANGED <<strokes, currentStroke, peers, activeUsers, lastCursorUpdate,
                 strokesRef, hasRequestedState, status, presenceState, net,
                 sent, now, trail, uuids>>

\* setDisplayName(name), with the effect on [currentUser.name] that follows
\* its render: a subscribed client with a non-empty name tracks itself again.
SetDisplayName(c, name) ==
  /\ Alive(c)
  /\ currentUser' = [currentUser EXCEPT ![c].name = name]
  /\ presence' = IF name # currentUser[c].name /\ name # "" /\ status[c] = "joined"
                 THEN Tracked(c, name)
                 ELSE presence
  /\ UNCHANGED <<strokes, currentStroke, peers, activeUsers, lastCursorUpdate,
                 strokesRef, hasRequestedState, status, presenceState, net,
                 sent, now, trail, uuids>>

\* The effect on [strokes]: strokesRef.current = strokes.
SyncStrokesRef(c) ==
  /\ Alive(c)
  /\ strokesRef[c] # strokes[c]
  /\ strokesRef' = [strokesRef EXCEPT ![c] = strokes[c]]
  /\ UNCHANGED <<strokes, currentStroke, peers, activeUsers, currentUser,
                 lastCursorUpdate, hasRequestedState, status, presence,
                 presenceState, net, sent, now, trail, uuids>>

\* ------------------------------------------------- the channel's callbacks
\* subscribe: on SUBSCRIBED the client tracks itself, with the name of the
\* render the callback was made in (the first, where the name is empty).
Subscribed(c) ==
  /\ status[c] = "mounted"
  /\ status' = [status EXCEPT ![c] = "joined"]
  /\ presence' = Tracked(c, "")
  /\ UNCHANGED <<hookVars, presenceState, net, sent, now, trail, uuids>>

\* prev.filter((p) => p.id !== id)
RECURSIVE OtherPeers(_, _)
OtherPeers(prev, id) ==
  IF prev = <<>> THEN <<>>
  ELSE (IF Head(prev).id # id THEN <<Head(prev)>> ELSE <<>>)
       \o OtherPeers(Tail(prev), id)

\* A cursor-move handler that adds the payload without the filter.
HandleCursorMoveAppend(c, m) ==
  /\ status[c] = "joined"
  /\ m \in Inbox(c) /\ m.event = "cursor-move"
  /\ net' = Taken(net, m)
  /\ peers' = [peers EXCEPT ![c] = Append(@, m.payload)]
  /\ UNCHANGED <<strokes, currentStroke, activeUsers, currentUser,
                 lastCursorUpdate, strokesRef, hasRequestedState, status,
                 presence, presenceState, sent, now, trail, uuids>>

\* on broadcast cursor-move
HandleCursorMove(c, m) ==
  /\ status[c] = "joined"
  /\ m \in Inbox(c) /\ m.event = "cursor-move"
  /\ net' = Taken(net, m)
  /\ peers' = [peers EXCEPT ![c] = Append(OtherPeers(@, m.payload.id), m.payload)]
  /\ UNCHANGED <<strokes, currentStroke, activeUsers, currentUser,
                 lastCursorUpdate, strokesRef, hasRequestedState, status,
                 presence, presenceState, sent, now, trail, uuids>>

\* A draw-line handler that sets the log to the received stroke alone.
HandleDrawLineOverwrite(c, m) ==
  /\ status[c] = "joined"
  /\ m \in Inbox(c) /\ m.event = "draw-line"
  /\ net' = Taken(net, m)
  /\ strokes' = [strokes EXCEPT ![c] = <<m.payload>>]
  /\ UNCHANGED <<currentStroke, peers, activeUsers, currentUser,
                 lastCursorUpdate, strokesRef, hasRequestedState, status,
                 presence, presenceState, sent, now, trail, uuids>>

\* A draw-line handler that drops the received stroke.
HandleDrawLineDrop(c, m) ==
  /\ status[c] = "joined"
  /\ m \in Inbox(c) /\ m.event = "draw-line"
  /\ net' = Taken(net, m)
  /\ UNCHANGED <<hookVars, status, presence, presenceState, sent, now, trail, uuids>>

\* A draw-line handler that skips a stroke whose id the log has already.
HandleDrawLineDedup(c, m) ==
  /\ status[c] = "joined"
  /\ m \in Inbox(c) /\ m.event = "draw-line"
  /\ net' = Taken(net, m)
  /\ strokes' = [strokes EXCEPT ![c] =
       IF \E i \in 1..Len(@) : @[i].id = m.payload.id THEN @ ELSE Append(@, m.payload)]
  /\ UNCHANGED <<currentStroke, peers, activeUsers, currentUser,
                 lastCursorUpdate, strokesRef, hasRequestedState, status,
                 presence, presenceState, sent, now, trail, uuids>>

\* on broadcast draw-line
HandleDrawLine(c, m) ==
  /\ status[c] = "joined"
  /\ m \in Inbox(c) /\ m.event = "draw-line"
  /\ net' = Taken(net, m)
  /\ strokes' = [strokes EXCEPT ![c] = Append(@, m.payload)]
  /\ UNCHANGED <<currentStroke, peers, activeUsers, currentUser,
                 lastCursorUpdate, strokesRef, hasRequestedState, status,
                 presence, presenceState, sent, now, trail, uuids>>

\* A reply condition with a host fixed once and for all: the first user.
ShouldReplyFixedHost(c, requesterId, allPresences) ==
  /\ requesterId # currentUser[c].id
  /\ currentUser[c].id = "A"

\* A reply condition without the test of the requester: the first of the
\* sorted presences answers whoever asks.
ShouldReplyHostOnly(c, requesterId, allPresences) ==
  ElectHost(allPresences) = Some(currentUser[c].id)

\* A reply condition without the election: everyone but the requester.
ShouldReplyAnyone(c, requesterId, allPresences) ==
  requesterId # currentUser[c].id

\* The test of the req-state handler: I am not the requester, and I am the
\* first of the presences sorted by online_at.
ShouldReply(c, requesterId, allPresences) ==
  /\ requesterId # currentUser[c].id
  /\ ElectHost(allPresences) = Some(currentUser[c].id)

\* on broadcast req-state
HandleReqState(c, m) ==
  /\ status[c] = "joined"
  /\ m \in Inbox(c) /\ m.event = "req-state"
  /\ \E allPresences \in Enumerations(presenceState[c]) :
       IF ShouldReply(c, m.payload.requesterId, allPresences)
       THEN LET msg == Message("sync-state", [strokes |-> strokesRef[c]])
            IN /\ HasRoom(Taken(net, m), c)
               /\ net' = Broadcast(Taken(net, m), c, msg)
               /\ sent' = Recorded(c, msg)
       ELSE /\ net' = Taken(net, m)
            /\ sent' = sent
  /\ UNCHANGED <<hookVars, status, presence, presenceState, now, trail, uuids>>

\* The strokes of log that client c made itself and that are not in received.
RECURSIVE OwnMissing(_, _, _)
OwnMissing(c, log, received) ==
  IF log = <<>> THEN <<>>
  ELSE (IF Head(log).userId = c /\ \A i \in 1..Len(received) : received[i] # Head(log)
        THEN <<Head(log)>> ELSE <<>>) \o OwnMissing(c, Tail(log), received)

\* A sync-state handler that keeps the client's own strokes.
HandleSyncStateMerge(c, m) ==
  /\ status[c] = "joined"
  /\ m \in Inbox(c) /\ m.event = "sync-state"
  /\ net' = Taken(net, m)
  /\ strokes' = [strokes EXCEPT ![c] =
       m.payload.strokes \o OwnMissing(c, @, m.payload.strokes)]
  /\ UNCHANGED <<currentStroke, peers, activeUsers, currentUser,
                 lastCursorUpdate, strokesRef, hasRequestedState, status,
                 presence, presenceState, sent, now, trail, uuids>>

\* A sync-state handler for those only who asked for the state.
HandleSyncStateIfAsked(c, m) ==
  /\ status[c] = "joined"
  /\ m \in Inbox(c) /\ m.event = "sync-state"
  /\ net' = Taken(net, m)
  /\ strokes' = [strokes EXCEPT ![c] =
       IF hasRequestedState[c] THEN m.payload.strokes ELSE @]
  /\ UNCHANGED <<currentStroke, peers, activeUsers, currentUser,
                 lastCursorUpdate, strokesRef, hasRequestedState, status,
                 presence, presenceState, sent, now, trail, uuids>>

\* A sync-state handler that empties the slot along with the log it replaces.
HandleSyncStateClearsSlot(c, m) ==
  /\ status[c] = "joined"
  /\ m \in Inbox(c) /\ m.event = "sync-state"
  /\ net' = Taken(net, m)
  /\ strokes' = [strokes EXCEPT ![c] = m.payload.strokes]
  /\ currentStroke' = [currentStroke EXCEPT ![c] = None]
  /\ UNCHANGED <<peers, activeUsers, currentUser,
                 lastCursorUpdate, strokesRef, hasRequestedState, status,
                 presence, presenceState, sent, now, trail, uuids>>

\* on broadcast sync-state
HandleSyncState(c, m) ==
  /\ status[c] = "joined"
  /\ m \in Inbox(c) /\ m.event = "sync-state"
  /\ net' = Taken(net, m)
  /\ strokes' = [strokes EXCEPT ![c] = m.payload.strokes]
  /\ UNCHANGED <<currentStroke, peers, activeUsers, currentUser,
                 lastCursorUpdate, strokesRef, hasRequestedState, status,
                 presence, presenceState, sent, now, trail, uuids>>

\* p.name || 'Anonymous'
DisplayedName(p) == IF p.name = "" THEN "Anonymous" ELSE p.name

\* A presence handler that asks as soon as the registry has any record.
PresenceSyncEager(c) ==
  /\ status[c] = "joined"
  /\ presenceState' = [presenceState EXCEPT ![c] = Registry]
  /\ \E allPresences \in Enumerations(Registry) :
       /\ activeUsers' = [activeUsers EXCEPT ![c] =
            [i \in 1..Len(allPresences) |-> DisplayedName(allPresences[i])]]
       /\ IF ~hasRequestedState[c] /\ Len(allPresences) >= 1
          THEN LET msg == Message("req-state", [requesterId |-> currentUser[c].id])
               IN /\ HasRoom(net, c)
                  /\ net' = Broadcast(net, c, msg)
                  /\ sent' = Recorded(c, msg)
                  /\ hasRequestedState' = [hasRequestedState EXCEPT ![c] = TRUE]
          ELSE UNCHANGED <<net, sent, hasRequestedState>>
  /\ UNCHANGED <<strokes, currentStroke, peers, currentUser, lastCursorUpdate,
                 strokesRef, status, presence, now, trail, uuids>>

\* A presence handler that does not set hasRequestedState.
PresenceSyncForgetful(c) ==
  /\ status[c] = "joined"
  /\ presenceState' = [presenceState EXCEPT ![c] = Registry]
  /\ \E allPresences \in Enumerations(Registry) :
       /\ activeUsers' = [activeUsers EXCEPT ![c] =
            [i \in 1..Len(allPresences) |-> DisplayedName(allPresences[i])]]
       /\ IF ~hasRequestedState[c] /\ Len(allPresences) > 1
          THEN LET msg == Message("req-state", [requesterId |-> currentUser[c].id])
               IN /\ HasRoom(net, c)
                  /\ net' = Broadcast(net, c, msg)
                  /\ sent' = Recorded(c, msg)
                  /\ UNCHANGED hasRequestedState
          ELSE UNCHANGED <<net, sent, hasRequestedState>>
  /\ UNCHANGED <<strokes, currentStroke, peers, currentUser, lastCursorUpdate,
                 strokesRef, status, presence, now, trail, uuids>>

\* on presence sync: the client's copy of the registry is brought up to date
\* and the handler runs on it.
PresenceSync(c) ==
  /\ status[c] = "joined"
  /\ presenceState' = [presenceState EXCEPT ![c] = Registry]
  /\ \E allPresences \in Enumerations(Registry) :
       /\ activeUsers' = [activeUsers EXCEPT ![c] =
            [i \in 1..Len(allPresences) |-> DisplayedName(allPresences[i])]]
       /\ IF ~hasRequestedState[c] /\ Len(allPresences) > 1
          THEN LET msg == Message("req-state", [requesterId |-> currentUser[c].id])
               IN /\ HasRoom(net, c)
                  /\ net' = Broadcast(net, c, msg)
                  /\ sent' = Recorded(c, msg)
                  /\ hasRequestedState' = [hasRequestedState EXCEPT ![c] = TRUE]
          ELSE UNCHANGED <<net, sent, hasRequestedState>>
  /\ UNCHANGED <<strokes, currentStroke, peers, currentUser, lastCursorUpdate,
                 strokesRef, status, presence, now, trail, uuids>>

\* ------------------------------------------------------- the environment
\* The client closes the page: the registry drops its record and the copies
\* in flight to it are never handled.
Leave(c) ==
  /\ status[c] = "joined"
  /\ status' = [status EXCEPT ![c] = "left"]
  /\ presence' = [presence EXCEPT ![c] = None]
  /\ net' = [m \in {k \in BagToSet(net) : k.to # c} |-> net[m]]
  /\ UNCHANGED <<hookVars, presenceState, sent, now, trail, uuids>>

\* The transport drops a copy in flight.
Lose(m) ==
  /\ BagIn(m, net)
  /\ net' = Taken(net, m)
  /\ UNCHANGED <<hookVars, status, presence, presenceState, sent, now, trail, uuids>>

\* A millisecond passes.  Time is let pass only once the present instant has
\* been used as a timestamp: a run is short of ThrottleMs and only the order
\* of the timestamps matters in it.
Tick ==
  /\ \E c \in Clients : presence[c] # None /\ GetTime(presence[c][1].online_at) = now
  /\ now' = now + 1
  /\ UNCHANGED <<hookVars, status, presence, presenceState, net, sent, trail, uuids>>

\* ------------------------------------------------------------ the board
\* The state of a room whose users have each moved the pointer onto the
\* canvas (moveCursor(0, 0)) at StartTime, before anyone subscribed: the
\* throttle of every client is shut for the next ThrottleMs.
InitBoard ==
  /\ strokes = [c \in Clients |-> <<>>]
  /\ currentStroke = [c \in Clients |-> None]
  /\ peers = [c \in Clients |-> <<>>]
  /\ activeUsers = [c \in Clients |-> <<>>]
  /\ currentUser = [c \in Clients |->
       [id |-> c, name |-> "", color |-> COLORS_BLACK, width |-> WIDTHS_PEN]]
  /\ lastCursorUpdate = [c \in Clients |-> StartTime]
  /\ strokesRef = [c \in Clients |-> <<>>]
  /\ hasRequestedState = [c \in Clients |-> FALSE]
  /\ status = [c \in Clients |-> "mounted"]
  /\ presence = [c \in Clients |-> None]
  /\ presenceState = [c \in Clients |-> {}]
  /\ net = EmptyBag
  /\ sent = SetToBag({[from |-> c, event |-> "cursor-move",
                       payload |-> [id |-> c, x |-> 0, y |-> 0, name |-> ""]]
                      : c \in Clients})
  /\ now = StartTime
  /\ trail = [c \in Clients |-> <<>>]
  /\ uuids = [c \in Clients |-> 0]

\* The users of a board run.
Board == {"A", "B"}

\* The users open the page in the order of their names (any other order is
\* this one with the users renamed).
Turns == <<"A", "B", "C">>

InTurn(c) ==
  \A i, j \in 1..Len(Turns) : i < j /\ Turns[j] = c => status[Turns[i]] # "mounted"

\* Strokes and the catch-up handshake among the users R, on a transport that
\* delivers every copy.
BoardNext(R) ==
  \/ \E c \in R : StartDrawing(c, 0, 0)
  \/ \E c \in R : EndDrawing(c)
  \/ \E c \in R : SyncStrokesRef(c)
  \/ \E c \in R : InTurn(c) /\ Subscribed(c)
  \/ \E c \in R : PresenceSync(c)
  \/ \E c \in R : \E m \in Inbox(c) : HandleDrawLine(c, m)
  \/ \E c \in R : \E m \in Inbox(c) : HandleReqState(c, m)
  \/ \E c \in R : \E m \in Inbox(c) : HandleSyncState(c, m)
  \/ Tick

Spec == InitBoard /\ [][BoardNext(Board)]_vars

\* --------------------------------------------------------- the drawing
\* The user who draws and the user who watches.
Drawer == "A"
Watcher == "B"

\* One user's pointer, tools and strokes, and a second user who receives.
DrawNext ==
  \/ \E c \in {Drawer, Watcher} : InTurn(c) /\ Subscribed(c)
  \/ \E p \in Positions : StartDrawing(Drawer, p.x, p.y)
  \/ \E p \in Positions : Draw(Drawer, p.x, p.y)
  \/ \E p \in Positions : MoveCursor(Drawer, p.x, p.y)
  \/ EndDrawing(Drawer)
  \/ \E t \in Tools : SetTool(Drawer, t.color, t.width)
  \/ SyncStrokesRef(Drawer)
  \/ \E m \in Inbox(Watcher) : HandleDrawLine(Watcher, m)
  \/ \E m \in Inbox(Watcher) : HandleCursorMove(Watcher, m)
  \/ \E m \in BagToSet(net) : Lose(m)

SpecDraw == Init /\ [][DrawNext]_vars

\* ------------------------------------------------------------ the pointer
\* handleMouseUp of the canvas
HandleMouseUp(c) == EndDrawing(c)

\* A mouse leave that throws the stroke in progress away.
OnMouseLeaveDiscards(c) ==
  /\ Alive(c)
  /\ currentStroke' = [currentStroke EXCEPT ![c] = None]
  /\ trail' = [trail EXCEPT ![c] = <<>>]
  /\ UNCHANGED <<strokes, peers, activeUsers, currentUser, lastCursorUpdate,
                 strokesRef, hasRequestedState, status, presence,
                 presenceState, net, sent, now, uuids>>

\* onMouseLeave of the canvas: the handler of mouse up
OnMouseLeave(c) == HandleMouseUp(c)

\* The time to the next pointer event passes.
Elapse ==
  /\ now + PointerMs <= StartTime + MaxElapsed
  /\ now' = now + PointerMs
  /\ UNCHANGED <<hookVars, status, presence, presenceState, net, sent, trail, uuids>>

\* The points of the canvas the pointer comes to.
Surface == Positions \cup {[x |-> 30, y |-> 5]}

\* The pointer of one user on the canvas: presses, moves, releases, leaves.
PointerNext ==
  \/ Subscribed(Drawer)
  \/ \E p \in Surface : StartDrawing(Drawer, p.x, p.y)
  \/ \E p \in Surface : Draw(Drawer, p.x, p.y)
  \/ HandleMouseUp(Drawer)
  \/ OnMouseLeave(Drawer)

SpecPointer == Init /\ [][PointerNext]_vars

\* The pointer of one user over MaxElapsed ms, pressed or not.
ThrottleNext ==
  \/ Subscribed(Drawer)
  \/ \E p \in Positions : StartDrawing(Drawer, p.x, p.y)
  \/ \E p \in Positions : Draw(Drawer, p.x, p.y)
  \/ \E p \in Positions : MoveCursor(Drawer, p.x, p.y)
  \/ HandleMouseUp(Drawer)
  \/ Elapse

SpecThrottle == Init /\ [][ThrottleNext]_vars

\* ------------------------------------------------------------- the room
\* Presence and the catch-up handshake among all the users, who come and go.
RoomNext ==
  \/ \E c \in Clients : InTurn(c) /\ Subscribed(c)
  \/ \E c \in Clients : PresenceSync(c)
  \/ \E c \in Clients : \E m \in Inbox(c) : HandleReqState(c, m)
  \/ \E c \in Clients : \E m \in Inbox(c) : HandleSyncState(c, m)
  \/ \E c \in Clients : Leave(c)
  \/ Tick

SpecRoom == InitBoard /\ [][RoomNext]_vars

\* ------------------------------------------------------------- the names
\* Two users subscribe, give their names and go through the handshake.
NamesNext ==
  \/ \E c \in Board : InTurn(c) /\ Subscribed(c)
  \/ \E c \in Board : \E name \in Names : SetDisplayName(c, name)
  \/ \E c \in Board : PresenceSync(c)
  \/ \E c \in Board : \E m \in Inbox(c) : HandleReqState(c, m)
  \/ \E c \in Board : \E m \in Inbox(c) : HandleSyncState(c, m)
  \/ Tick

SpecNames == InitBoard /\ [][NamesNext]_vars

\* ------------------------------------------------------------ an election
\* Three users are in the room, subscribed in any order within MaxSkew ms of
\* StartTime; everyone has seen the whole registry and has asked for the
\* state, and the request of one of them is in flight to the other two (the
\* copies of the other requests were lost).
InitElect ==
  /\ strokes = [c \in Clients |-> <<>>]
  /\ currentStroke = [c \in Clients |-> None]
  /\ peers = [c \in Clients |-> <<>>]
  /\ currentUser = [c \in Clients |->
       [id |-> c, name |-> "", color |-> COLORS_BLACK, width |-> WIDTHS_PEN]]
  /\ lastCursorUpdate = [c \in Clients |-> StartTime]
  /\ strokesRef = [c \in Clients |-> <<>>]
  /\ hasRequestedState = [c \in Clients |-> TRUE]
  /\ status = [c \in Clients |-> "joined"]
  /\ \E at \in [Clients -> 0..MaxSkew] :
       presence = [c \in Clients |->
         Some([user_id |-> c, name |-> "",
               online_at |-> ToISOString(StartTime + at[c])])]
  /\ presenceState = [c \in Clients |-> Registry]
  /\ \E allPresences \in Enumerations(Registry) :
       activeUsers = [c \in Clients |->
         [i \in 1..Len(allPresences) |-> DisplayedName(allPresences[i])]]
  /\ \E c \in Clients :
       net = Copies(c, Message("req-state", [requesterId |-> c]))
  /\ sent = SetToBag({[from |-> c, event |-> "cursor-move",
                       payload |-> [id |-> c, x |-> 0, y |-> 0, name |-> ""]]
                      : c \in Clients})
            (+) SetToBag({[from |-> c, event |-> "req-state",
                           payload |-> [requesterId |-> c]] : c \in Clients})
  /\ now = StartTime + MaxSkew
  /\ trail = [c \in Clients |-> <<>>]
  /\ uuids = [c \in Clients |-> 0]

ElectNext ==
  \/ \E c \in Clients : \E m \in Inbox(c) : HandleReqState(c, m)
  \/ \E c \in Clients : \E m \in Inbox(c) : HandleSyncState(c, m)

SpecElect == InitElect /\ [][ElectNext]_vars

\* ------------------------------------------------------------- a sync-state
\* The first stroke of client c: a dot of the default pen.
Dot(c) ==
  [id |-> <<c, 1>>, userId |-> c, color |-> COLORS_BLACK, width |-> WIDTHS_PEN,
   points |-> <<[x |-> 0, y |-> 0]>>]

\* The logs made of the first strokes of the first two users.
Logs ==
  {<<>>, <<Dot("A")>>, <<Dot("B")>>, <<Dot("A"), Dot("B")>>, <<Dot("B"), Dot("A")>>}

\* Three users are in the room, subscribed one ms after the other.  The
\* first two have committed a stroke each; draw-lines, earlier sync-states
\* and losses have left each user with some log of these strokes.  The last
\* user has asked for the state, and so has each of the others that has seen
\* the registry since the second user came (the first saw itself alone if
\* not); the sync-state of the first user, with the log it had noted, is in
\* flight to the other two.
InitSync ==
  /\ strokes \in [Clients -> Logs]
  /\ currentStroke = [c \in Clients |-> None]
  /\ peers = [c \in Clients |-> <<>>]
  /\ currentUser = [c \in Clients |->
       [id |-> c, name |-> "", color |-> COLORS_BLACK, width |-> WIDTHS_PEN]]
  /\ lastCursorUpdate = [c \in Clients |-> StartTime]
  /\ strokesRef = strokes
  /\ hasRequestedState \in [Clients -> BOOLEAN]
  /\ hasRequestedState["C"]
  /\ status = [c \in Clients |-> "joined"]
  /\ presence = [c \in Clients |->
       Some([user_id |-> c, name |-> "",
             online_at |-> ToISOString(StartTime + (CHOOSE i \in 1..3 : Turns[i] = c))])]
  /\ presenceState = [c \in Clients |->
       IF hasRequestedState[c] THEN Registry
       ELSE IF c = "A" THEN {presence[c][1]} ELSE {}]
  /\ activeUsers = [c \in Clients |->
       [i \in 1..Cardinality(presenceState[c]) |-> "Anonymous"]]
  /\ \E log \in Logs :
       /\ net = Copies("A", Message("sync-state", [strokes |-> log]))
       /\ sent = SetToBag({[from |-> c, event |-> "cursor-move",
                            payload |-> [id |-> c, x |-> 0, y |-> 0, name |-> ""]]
                           : c \in Clients})
                 (+) SetToBag({[from |-> c, event |-> "draw-line", payload |-> Dot(c)]
                               : c \in {"A", "B"}})
                 (+) SetToBag({[from |-> c, event |-> "req-state",
                                payload |-> [requesterId |-> c]]
                               : c \in {d \in Clients : hasRequestedState[d]}})
                 (+) SetToBag({[from |-> "A", event |-> "sync-state",
                                payload |-> [strokes |-> log]]})
  /\ now = StartTime + 4
  /\ trail = [c \in Clients |-> <<>>]
  /\ uuids = [c \in Clients |-> IF c = "C" THEN 0 ELSE 1]

SyncNext ==
  \/ \E c \in Clients : \E m \in Inbox(c) : HandleSyncState(c, m)
  \/ \E c \in Clients : SyncStrokesRef(c)

SpecSync == InitSync /\ [][SyncNext]_vars

\* ------------------------------------------------------------------ a tie
\* Three users are in the room, subscribed in any order within MaxSkew ms of
\* StartTime; everyone has seen the whole registry and has asked for the
\* state.  The request of one of them has been handled by a second, who
\* found itself first of the sorted presences and answered, and the answer
\* has been handled; the copy of the request to the third is still in
\* flight.
InitTie ==
  /\ strokes = [c \in Clients |-> <<>>]
  /\ currentStroke = [c \in Clients |-> None]
  /\ peers = [c \in Clients |-> <<>>]
  /\ currentUser = [c \in Clients |->
       [id |-> c, name |-> "", color |-> COLORS_BLACK, width |-> WIDTHS_PEN]]
  /\ lastCursorUpdate = [c \in Clients |-> StartTime]
  /\ strokesRef = [c \in Clients |-> <<>>]
  /\ hasRequestedState = [c \in Clients |-> TRUE]
  /\ status = [c \in Clients |-> "joined"]
  /\ \E at \in [Clients -> 0..MaxSkew] :
       presence = [c \in Clients |->
         Some([user_id |-> c, name |-> "",
               online_at |-> ToISOString(StartTime + at[c])])]
  /\ presenceState = [c \in Clients |-> Registry]
  /\ \E allPresences \in Enumerations(Registry) :
       activeUsers = [c \in Clients |->
         [i \in 1..Len(allPresences) |-> DisplayedName(allPresences[i])]]
  /\ \E r \in Clients : \E h \in Clients \ {r} : \E k \in Clients \ {r, h} :
       /\ \E allPresences \in Enumerations(Registry) : ShouldReply(h, r, allPresences)
       /\ net = SetToBag({[to |-> k, event |-> "req-state",
                           payload |-> [requesterId |-> r]]})
       /\ sent = SetToBag({[from |-> c, event |-> "cursor-move",
                            payload |-> [id |-> c, x |-> 0, y |-> 0, name |-> ""]]
                           : c \in Clients})
                 (+) SetToBag({[from |-> c, event |-> "req-state",
                                payload |-> [requesterId |-> c]] : c \in Clients})
                 (+) SetToBag({[from |-> h, event |-> "sync-state",
                                payload |-> [strokes |-> <<>>]]})
  /\ now = StartTime + MaxSkew
  /\ trail = [c \in Clients |-> <<>>]
  /\ uuids = [c \in Clients |-> 0]

SpecTie == InitTie /\ [][ElectNext]_vars

\* ---------------------------------------------------------------- an echo
\* Three users are in the room, subscribed in any order within MaxSkew ms of
\* StartTime; everyone has seen the whole registry and has asked for the
\* state.  The req-state handler is given every payload there is: the
\* request of one user is in flight to that user itself and, with room left,
\* to one of the others.
InitEcho ==
  /\ strokes = [c \in Clients |-> <<>>]
  /\ currentStroke = [c \in Clients |-> None]
  /\ peers = [c \in Clients |-> <<>>]
  /\ currentUser = [c \in Clients |->
       [id |-> c, name |-> "", color |-> COLORS_BLACK, width |-> WIDTHS_PEN]]
  /\ lastCursorUpdate = [c \in Clients |-> StartTime]
  /\ strokesRef = [c \in Clients |-> <<>>]
  /\ hasRequestedState = [c \in Clients |-> TRUE]
  /\ status = [c \in Clients |-> "joined"]
  /\ \E at \in [Clients -> 0..MaxSkew] :
       presence = [c \in Clients |->
         Some([user_id |-> c, name |-> "",
               online_at |-> ToISOString(StartTime + at[c])])]
  /\ presenceState = [c \in Clients |-> Registry]
  /\ \E allPresences \in Enumerations(Registry) :
       activeUsers = [c \in Clients |->
         [i \in 1..Len(allPresences) |-> DisplayedName(allPresences[i])]]
  /\ \E r \in Clients : \E D \in SUBSET (Clients \ {r}) :
       /\ Cardinality(D) + 1 <= MaxNet
       /\ Cardinality(D) <= 1
       /\ net = SetToBag({[to |-> d, event |-> "req-state",
                           payload |-> [requesterId |-> r]] : d \in D \cup {r}})
  /\ sent = SetToBag({[from |-> c, event |-> "cursor-move",
                       payload |-> [id |-> c, x |-> 0, y |-> 0, name |-> ""]]
                      : c \in Clients})
            (+) SetToBag({[from |-> c, event |-> "req-state",
                           payload |-> [requesterId |-> c]] : c \in Clients})
  /\ now = StartTime + MaxSkew
  /\ trail = [c \in Clients |-> <<>>]
  /\ uuids = [c \in Clients |-> 0]

SpecEcho == InitEcho /\ [][ElectNext]_vars

\* ------------------------------------------------------------ the cursors
\* Three users are in the room, subscribed one ms after the other; each has
\* seen the whole registry and asked for the state, and the first has
\* answered the two others out of its empty log.  Nothing is in flight and
\* nobody has moved the pointer over the canvas yet.
InitCursor ==
  /\ strokes = [c \in Clients |-> <<>>]
  /\ currentStroke = [c \in Clients |-> None]
  /\ peers = [c \in Clients |-> <<>>]
  /\ activeUsers = [c \in Clients |-> [i \in 1..Cardinality(Clients) |-> "Anonymous"]]
  /\ currentUser = [c \in Clients |->
       [id |-> c, name |-> "", color |-> COLORS_BLACK, width |-> WIDTHS_PEN]]
  /\ lastCursorUpdate = [c \in Clients |-> 0]
  /\ strokesRef = [c \in Clients |-> <<>>]
  /\ hasRequestedState = [c \in Clients |-> TRUE]
  /\ status = [c \in Clients |-> "joined"]
  /\ presence = [c \in Clients |->
       Some([user_id |-> c, name |-> "",
             online_at |-> ToISOString(StartTime + (CHOOSE i \in 1..3 : Turns[i] = c))])]
  /\ presenceState = [c \in Clients |-> Registry]
  /\ net = EmptyBag
  /\ sent = SetToBag({[from |-> c, event |-> "req-state",
                       payload |-> [requesterId |-> c]] : c \in Clients})
            (+) [r \in {[from |-> "A", event |-> "sync-state",
                         payload |-> [strokes |-> <<>>]]} |-> 2]
  /\ now = StartTime + 4
  /\ trail = [c \in Clients |-> <<>>]
  /\ uuids = [c \in Clients |-> 0]

\* The pointers rest for longer than the throttle is shut.
Rest ==
  /\ now + ThrottleMs + PointerMs <= StartTime + MaxElapsed
  /\ now' = now + ThrottleMs + PointerMs
  /\ UNCHANGED <<hookVars, status, presence, presenceState, net, sent, trail, uuids>>

\* The pointers of the first two users move over the canvas, the
\* cursor-moves arrive at whoever is there, and the first user may leave.
CursorNext ==
  \/ \E c \in Board : \E p \in Positions : MoveCursor(c, p.x, p.y)
  \/ \E c \in Clients : \E m \in Inbox(c) : HandleCursorMove(c, m)
  \/ Leave(Drawer)
  \/ \E c \in Clients : PresenceSync(c)
  \/ Rest

SpecCursor == InitCursor /\ [][CursorNext]_vars

\* ------------------------------------------------------------ a session
\* A user's whole session next to a second user, within one millisecond:
\* the name, the tools, one stroke (a press at one point, a move to the
\* other), and every message and presence event of the two.
SessionNext ==
  \/ \E c \in Board : InTurn(c) /\ Subscribed(c)
  \/ \E t \in Tools : SetTool(Drawer, t.color, t.width)
  \/ \E name \in Names : SetDisplayName(Drawer, name)
  \/ uuids[Drawer] = 0 /\ StartDrawing(Drawer, 0, 0)
  \/ Draw(Drawer, 10, 20)
  \/ EndDrawing(Drawer)
  \/ SyncStrokesRef(Drawer)
  \/ \E c \in Board : PresenceSync(c)
  \/ \E c \in Board : \E m \in Inbox(c) : HandleCursorMove(c, m)
  \/ \E c \in Board : \E m \in Inbox(c) : HandleDrawLine(c, m)
  \/ \E c \in Board : \E m \in Inbox(c) : HandleReqState(c, m)
  \/ \E c \in Board : \E m \in Inbox(c) : HandleSyncState(c, m)

SpecSession == Init /\ [][SessionNext]_vars

\* ------------------------------------------------------------ the orders
\* Two users, both in the room before the first press, commit strokes; the
\* draw-lines in flight to a user arrive in any order.
ReorderNext ==
  \/ \E c \in Board : InTurn(c) /\ Subscribed(c)
  \/ \E c \in Board : \E p \in Positions :
       /\ \A d \in Board : status[d] = "joined"
       /\ StartDrawing(c, p.x, p.y)
  \/ \E c \in Board : EndDrawing(c)
  \/ \E c \in Board : \E m \in Inbox(c) : HandleDrawLine(c, m)

SpecReorder == Init /\ [][ReorderNext]_vars

\* --------------------------------------------------------- a busy canvas
\* The second user opened the page at StartTime, saw itself alone and drew a
\* dot; the first user subscribed one ms later, before the dot was released,
\* so the draw-line of the dot is in flight to it.  Neither has handled a
\* presence sync since, and the effect that notes the log of the second user
\* has not run.  The throttle of both is open.
InitBusy ==
  /\ strokes = [c \in Clients |-> IF c = Watcher THEN <<Dot(Watcher)>> ELSE <<>>]
  /\ currentStroke = [c \in Clients |-> None]
  /\ peers = [c \in Clients |-> <<>>]
  /\ currentUser = [c \in Clients |->
       [id |-> c, name |-> "", color |-> COLORS_BLACK, width |-> WIDTHS_PEN]]
  /\ lastCursorUpdate = [c \in Clients |-> StartTime]
  /\ strokesRef = [c \in Clients |-> <<>>]
  /\ hasRequestedState = [c \in Clients |-> FALSE]
  /\ status = [c \in Clients |-> IF c \in Board THEN "joined" ELSE "mounted"]
  /\ presence = [c \in Clients |->
       IF c = Watcher
       THEN Some([user_id |-> c, name |-> "", online_at |-> ToISOString(StartTime)])
       ELSE IF c = Drawer
       THEN Some([user_id |-> c, name |-> "", online_at |-> ToISOString(StartTime + 1)])
       ELSE None]
  /\ presenceState = [c \in Clients |->
       IF c = Watcher THEN {presence[c][1]} ELSE {}]
  /\ activeUsers = [c \in Clients |->
       IF c = Watcher THEN <<"Anonymous">> ELSE <<>>]
  /\ net = SetToBag({[to |-> Drawer, event |-> "draw-line", payload |-> Dot(Watcher)]})
  /\ sent = SetToBag({[from |-> c, event |-> "cursor-move",
                       payload |-> [id |-> c, x |-> 0, y |-> 0, name |-> ""]]
                      : c \in Clients})
            (+) SetToBag({[from |-> Watcher, event |-> "draw-line",
                           payload |-> Dot(Watcher)]})
  /\ now = StartTime + ThrottleMs + PointerMs
  /\ trail = [c \in Clients |-> <<>>]
  /\ uuids = [c \in Clients |-> IF c = Watcher THEN 1 ELSE 0]

\* The first user draws while the second moves its pointer and every kind of
\* message and presence event arrives.
BusyNext ==
  \/ StartDrawing(Drawer, 0, 0)
  \/ Draw(Drawer, 10, 20)
  \/ EndDrawing(Drawer)
  \/ \E p \in Positions : MoveCursor(Watcher, p.x, p.y)
  \/ \E c \in Board : SyncStrokesRef(c)
  \/ \E c \in Board : PresenceSync(c)
  \/ \E c \in Board : \E m \in Inbox(c) : HandleCursorMove(c, m)
  \/ \E c \in Board : \E m \in Inbox(c) : HandleDrawLine(c, m)
  \/ \E c \in Board : \E m \in Inbox(c) : HandleReqState(c, m)
  \/ \E c \in Board : \E m \in Inbox(c) : HandleSyncState(c, m)

SpecBusy == InitBusy /\ [][BusyNext]_vars

\* =============================================================== claims
Range(seq) == {seq[i] : i \in 1..Len(seq)}

Ids(log) == {log[i].id : i \in 1..Len(log)}

Joined == {c \in Clients : status[c] = "joined"}

\* The record of a channel.send call.
Call(c, event, payload) == [from |-> c, event |-> event, payload |-> payload]

\* The calls of one event made so far.
Calls(event) == {r \in BagToSet(sent) : r.event = event}

\* The calls the step makes.
NewCalls == {r \in BagToSet(sent') : CopiesIn(r, sent') > CopiesIn(r, sent)}

\* The strokes client c has committed: those it has broadcast.
Committed(c) == {r.payload : r \in {k \in Calls("draw-line") : k.from = c}}

\* C1: a client's log changes only by a sync-state it handles or by gaining
\* one element at its end, every earlier element staying in place.
AppendOnly ==
  [][\A c \in Clients :
       strokes'[c] # strokes[c] =>
         \/ \E m \in Inbox(c) : HandleSyncState(c, m)
         \/ /\ Len(strokes'[c]) = Len(strokes[c]) + 1
            /\ SubSeq(strokes'[c], 1, Len(strokes[c])) = strokes[c]]_vars

\* A log that grew by a stroke of its owner and by a received one.
AppendOnlyWitness ==
  \E c \in Clients :
    /\ Len(strokes[c]) = 2
    /\ strokes[c][1].userId # c
    /\ strokes[c][2].userId = c

\* Nothing is left to deliver or to do: every subscribed client has seen the
\* whole registry and asked for the state, and no stroke is in progress.
Quiescent ==
  /\ Cardinality(Joined) >= 2
  /\ net = EmptyBag
  /\ \A c \in Joined :
       /\ hasRequestedState[c]
       /\ presenceState[c] = Registry
       /\ currentStroke[c] = None
       /\ strokesRef[c] = strokes[c]

\* C2, as claimed: on a transport that delivers every copy, with no client
\* gone, once everything is delivered all logs hold the same stroke ids.
SetConvergence ==
  Quiescent => \A c, d \in Joined : Ids(strokes[c]) = Ids(strokes[d])

\* The handshakes are over: every subscribed client has asked for the state
\* and no req-state or sync-state is in flight.
Settled ==
  /\ Cardinality(Joined) >= 2
  /\ \A c \in Joined : hasRequestedState[c]
  /\ \A m \in BagToSet(net) : m.event \notin {"req-state", "sync-state"}

\* The stroke ids in flight to client c.
InFlightIds(c) == {m.payload.id : m \in {k \in Inbox(c) : k.event = "draw-line"}}

\* The stroke ids client c holds or is about to receive.
Known(c) == Ids(strokes[c]) \cup InFlightIds(c)

\* The logs agree up to the draw-lines in flight.
Converging == \A c, d \in Joined : Known(c) = Known(d)

\* C2, amended: once the handshakes are over, logs that agree up to the
\* draw-lines in flight keep doing so, so that they hold the same stroke ids
\* whenever everything is delivered.
SettledConvergence ==
  [][Settled /\ Converging /\ Settled' => Converging']_vars

\* Both users drew after the handshakes, and each has both strokes.
SettledConvergenceWitness ==
  /\ Settled
  /\ net = EmptyBag
  /\ \A c \in Joined :
       /\ Len(strokes[c]) = 2
       /\ {strokes[c][i].userId : i \in 1..2} = Joined
       /\ Cardinality(Committed(c)) = 1

\* C6, as claimed: the sync-state a client sends carries its log as it is when
\* it handles the req-state, and the client that handles the sync-state has
\* exactly that log afterwards.
CatchUpExact ==
  [][\A c \in Clients : \A m \in Inbox(c) :
       /\ HandleReqState(c, m) =>
            \A r \in NewCalls : r.payload.strokes = strokes[c]
       /\ HandleSyncState(c, m) => strokes'[c] = m.payload.strokes]_vars

\* C7: a sync-state leaves the client that handles it with the strokes of
\* the message and without any stroke it committed that the message does not
\* carry, and such a stroke comes back only with a draw-line or a sync-state
\* that carries it.
RaceAcceptance ==
  [][\A c \in Clients : \A s \in Committed(c) :
       /\ \A m \in Inbox(c) :
            HandleSyncState(c, m) /\ s \notin Range(m.payload.strokes)
              => strokes'[c] = m.payload.strokes /\ s \notin Range(strokes'[c])
       /\ s \notin Range(strokes[c]) /\ s \in Range(strokes'[c]) =>
            \E m \in Inbox(c) :
              \/ HandleDrawLine(c, m) /\ m.payload = s
              \/ HandleSyncState(c, m) /\ s \in Range(m.payload.strokes)]_vars

\* The second user drew S2 while its request was out, and the answer [S1]
\* has replaced its log.
RaceAcceptanceWitness ==
  \E c \in Clients : \E s \in Committed(c) :
    /\ hasRequestedState[c]
    /\ Len(strokes[c]) = 1
    /\ strokes[c][1].userId # c
    /\ s \notin Range(strokes[c])
    /\ \E r \in Calls("sync-state") : r.payload.strokes = strokes[c]

\* The req-state calls client c has made.
Requests(c) == {r \in Calls("req-state") : r.from = c}

\* C3: a client sends req-state, carrying its own id, at the first presence
\* sync that shows more than one record, and at no other step: it has sent
\* one exactly when hasRequestedState is set, and never two.
SingleRequest ==
  /\ [](\A c \in Clients :
          /\ Requests(c) \subseteq {Call(c, "req-state", [requesterId |-> c])}
          /\ \A r \in Requests(c) : CopiesIn(r, sent) = 1
          /\ hasRequestedState[c] <=> Requests(c) # {})
  /\ [][\A c \in Clients :
          /\ PresenceSync(c) /\ ~hasRequestedState[c] /\ Cardinality(Registry) > 1
               => NewCalls = {Call(c, "req-state", [requesterId |-> c])}
          /\ PresenceSync(c) /\ (hasRequestedState[c] \/ Cardinality(Registry) <= 1)
               => sent' = sent
          /\ Requests(c)' # Requests(c) => PresenceSync(c)]_vars

\* A client that asked when it saw two records has since seen three, and
\* its one request has been handled.
SingleRequestWitness ==
  \E c \in Clients :
    /\ hasRequestedState[c]
    /\ Cardinality(presenceState[c]) = 3
    /\ \A d \in Clients : hasRequestedState[d]
    /\ \A m \in BagToSet(net) : m.event # "req-state"

DistinctTimes(S) ==
  \A p, q \in S : p # q => GetTime(p.online_at) # GetTime(q.online_at)

\* A record of S no record of S is older than.
Oldest(S) == CHOOSE p \in S : \A q \in S : GetTime(p.online_at) <= GetTime(q.online_at)

\* C4: a client that handles a req-state of a requester other than the
\* oldest, over a snapshot with pairwise distinct online_at, sends one
\* sync-state if it is the oldest of the snapshot and sends nothing if not.
HostOnlyResponse ==
  [][\A c \in Clients : \A m \in Inbox(c) :
       /\ HandleReqState(c, m)
       /\ presenceState[c] # {}
       /\ DistinctTimes(presenceState[c])
       /\ m.payload.requesterId # Oldest(presenceState[c]).user_id
       => IF c = Oldest(presenceState[c]).user_id
          THEN /\ \A r \in NewCalls : r.from = c /\ r.event = "sync-state"
               /\ BagCardinality(sent') = BagCardinality(sent) + 1
          ELSE sent' = sent]_vars

\* Three users subscribed at three instants; the requests of the two later
\* ones reached the other two users each, and only the first user answered.
HostOnlyResponseWitness ==
  /\ Joined = Clients
  /\ \A c \in Clients : presenceState[c] = Registry /\ hasRequestedState[c]
  /\ DistinctTimes(Registry)
  /\ \A m \in BagToSet(net) : m.event # "req-state"
  /\ \A r \in Calls("sync-state") : r.from = Oldest(Registry).user_id
  /\ BagCardinality(sent (-) SetToBag(BagToSet(sent) \ Calls("sync-state"))) >= 2

\* The record of user id in S.
RecordOf(S, id) == CHOOSE p \in S : p.user_id = id

\* C5: over any enumeration of a snapshot the election names a record no
\* record is older than, and if the online_at values are pairwise distinct it
\* names the same user over every enumeration.
IdempotentElection ==
  \A c \in Clients :
    LET S == presenceState[c]
    IN /\ \A e \in Enumerations(S) :
            S # {} =>
              /\ ElectHost(e) # None
              /\ \A q \in S : GetTime(RecordOf(S, ElectHost(e)[1]).online_at)
                                <= GetTime(q.online_at)
       /\ DistinctTimes(S) =>
            \A e1, e2 \in Enumerations(S) : ElectHost(e1) = ElectHost(e2)

\* The last user in name order subscribed first, at a different instant than
\* the others, and has answered the request.
IdempotentElectionWitness ==
  /\ DistinctTimes(presenceState["C"])
  /\ Cardinality(presenceState["C"]) = 3
  /\ Oldest(presenceState["C"]).user_id = "C"
  /\ \E r \in Calls("sync-state") : r.from = "C"

\* C8: a draw-line is sent only by the endDrawing that commits a stroke, once
\* per stroke, with every point the pointer visited during the press; no
\* stroke still in progress, and no part of one, is ever on the channel.
StrokeAtomicity ==
  /\ [](/\ \A r \in Calls("draw-line") :
             /\ CopiesIn(r, sent) = 1
             /\ \A q \in Calls("draw-line") : q.payload.id = r.payload.id => q = r
             /\ \A c \in Clients :
                  currentStroke[c] # None => currentStroke[c][1].id # r.payload.id
        /\ \A m \in BagToSet(net) :
             m.event = "draw-line" =>
               \E r \in Calls("draw-line") : r.payload = m.payload)
  /\ [][\A r \in NewCalls :
          r.event = "draw-line" =>
            \E c \in Clients :
              /\ currentStroke[c] # None
              /\ EndDrawing(c)
              /\ strokes'[c] = Append(strokes[c], r.payload)
              /\ r = Call(c, "draw-line", currentStroke[c][1])
              /\ r.payload.points = trail[c]
              /\ NewCalls = {r}]_vars

\* A stroke of two points has been sent, whole, and the next is in progress.
StrokeAtomicityWitness ==
  /\ \E r \in Calls("draw-line") : Len(r.payload.points) = 2
  /\ \E c \in Clients : currentStroke[c] # None /\ Len(currentStroke[c][1].points) = 2

\* C9: endDrawing with a stroke in the slot appends that stroke to the log,
\* sends one draw-line carrying it to every other user, and empties the slot.
EndDrawingCommits ==
  [][\A c \in Clients :
       currentStroke[c] # None /\ EndDrawing(c) =>
         /\ strokes'[c] = strokes[c] \o currentStroke[c]
         /\ Len(strokes'[c]) = Len(strokes[c]) + 1
         /\ \A d \in Clients \ {c} : strokes'[d] = strokes[d]
         /\ sent' = sent (+) SetToBag({Call(c, "draw-line", currentStroke[c][1])})
         /\ net' = net (+) SetToBag({[to |-> d, event |-> "draw-line",
                                      payload |-> currentStroke[c][1]]
                                     : d \in Joined \ {c}})
         /\ currentStroke'[c] = None]_vars

\* The user committed an eraser stroke, and its draw-line is on its way to
\* the other user.
EndDrawingCommitsWitness ==
  \E c \in Clients :
    /\ currentStroke[c] = None
    /\ strokes[c] # <<>>
    /\ strokes[c][Len(strokes[c])].color = COLORS_ERASER
    /\ \E m \in BagToSet(net) :
         m.event = "draw-line" /\ m.payload = strokes[c][Len(strokes[c])]

\* C10: startDrawing puts a new stroke in the slot, of the one point given,
\* the user's id and the colour and width selected, and neither changes a log
\* nor sends a message.
StartDrawingAllocates ==
  [][\A c \in Clients : \A p \in Positions :
       StartDrawing(c, p.x, p.y) =>
         /\ currentStroke'[c] # None
         /\ currentStroke'[c][1].points = <<p>>
         /\ currentStroke'[c][1].userId = currentUser[c].id
         /\ currentStroke'[c][1].color = currentUser[c].color
         /\ currentStroke'[c][1].width = currentUser[c].width
         /\ \A d \in Clients : strokes[d] # <<>> =>
              \A i \in 1..Len(strokes[d]) : strokes[d][i].id # currentStroke'[c][1].id
         /\ strokes' = strokes
         /\ sent' = sent
         /\ net' = net]_vars

\* The eraser is selected and a second stroke has just begun with it, the
\* first being in the log.
StartDrawingAllocatesWitness ==
  \E c \in Clients :
    /\ currentStroke[c] # None
    /\ Len(currentStroke[c][1].points) = 1
    /\ currentStroke[c][1].color = COLORS_ERASER
    /\ currentStroke[c][1].width = WIDTHS_ERASER
    /\ Len(strokes[c]) = 1

\* C11: draw with a stroke in the slot adds the point as last point of that
\* stroke and changes nothing else of it, keeps the slot full and every log
\* as it is; the points of the slot are the points of the press, in order.
DrawAppendsPoint ==
  /\ [](\A c \in Clients :
          currentStroke[c] # None =>
            /\ currentStroke[c][1].points = trail[c]
            /\ Len(currentStroke[c][1].points) >= 1)
  /\ [][\A c \in Clients : \A p \in Surface :
          currentStroke[c] # None /\ Draw(c, p.x, p.y) =>
            /\ currentStroke'[c] # None
            /\ currentStroke'[c][1] =
                 [currentStroke[c][1] EXCEPT !.points = Append(@, p)]
            /\ Len(currentStroke'[c][1].points) = Len(currentStroke[c][1].points) + 1
            /\ strokes' = strokes]_vars

\* A press and two moves: three points in the slot, a first stroke in the log.
DrawAppendsPointWitness ==
  \E c \in Clients :
    /\ currentStroke[c] # None
    /\ Len(currentStroke[c][1].points) = 3
    /\ Len(strokes[c]) = 1

\* C12: the pointer leaving the canvas does what mouse up does: the stroke
\* in the slot, if any, goes to the end of the log and out in one draw-line,
\* and the slot is empty afterwards.
LeaveReleases ==
  [][\A c \in Clients :
       /\ OnMouseLeave(c) <=> HandleMouseUp(c)
       /\ OnMouseLeave(c) =>
            /\ currentStroke'[c] = None
            /\ currentStroke[c] # None =>
                 /\ strokes'[c] = Append(strokes[c], currentStroke[c][1])
                 /\ sent' = sent (+) SetToBag({Call(c, "draw-line", currentStroke[c][1])})
            /\ currentStroke[c] = None => strokes' = strokes /\ sent' = sent]_vars

\* A stroke of two points is in the log and has been sent; the slot is empty.
LeaveReleasesWitness ==
  \E c \in Clients :
    /\ currentStroke[c] = None
    /\ Len(strokes[c]) = 1
    /\ Len(strokes[c][1].points) = 2
    /\ Call(c, "draw-line", strokes[c][1]) \in Calls("draw-line")

\* The log is the beginning of the log it becomes.
Kept(before, after) ==
  /\ Len(after) >= Len(before)
  /\ SubSeq(after, 1, Len(before)) = before

\* C13: committing a stroke made with the eraser (#FFFFFF, width 20) puts it
\* at the end of the log, one element more and the earlier ones in place, and
\* no step of a user who draws, moves the pointer and changes tools, or of
\* the one who receives the strokes, takes a stroke off a log.
EraserAdditive ==
  [][\A c \in Clients :
       /\ /\ currentStroke[c] # None
          /\ currentStroke[c][1].color = COLORS_ERASER
          /\ currentStroke[c][1].width = WIDTHS_ERASER
          /\ EndDrawing(c)
          => /\ Len(strokes'[c]) = Len(strokes[c]) + 1
             /\ Kept(strokes[c], strokes'[c])
             /\ strokes'[c][Len(strokes'[c])] = currentStroke[c][1]
       /\ Kept(strokes[c], strokes'[c])]_vars

\* A pen stroke and, after it, an eraser stroke are in the log.
EraserAdditiveWitness ==
  \E c \in Clients :
    /\ Len(strokes[c]) = 2
    /\ strokes[c][1].color = COLORS_BLACK
    /\ strokes[c][2].color = COLORS_ERASER
    /\ strokes[c][2].width = WIDTHS_ERASER

\* The cursor-move call of client c for the point p.
CursorCall(c, p) ==
  Call(c, "cursor-move",
       [id |-> currentUser[c].id, x |-> p.x, y |-> p.y, name |-> currentUser[c].name])

\* C14, as claimed: a draw or moveCursor call sends one cursor-move, with its
\* coordinates, if at least ThrottleMs have passed since the client's last
\* one, and sends nothing otherwise.
ThrottleAtLeast ==
  [][\A c \in Clients : \A p \in Positions :
       Draw(c, p.x, p.y) \/ MoveCursor(c, p.x, p.y) =>
         IF now - lastCursorUpdate[c] >= ThrottleMs
         THEN sent' = sent (+) SetToBag({CursorCall(c, p)})
         ELSE sent' = sent]_vars

\* C14, amended: a draw or moveCursor call, stroke in progress or not, sends
\* one cursor-move, with its coordinates, if more than ThrottleMs have passed
\* since the client's last one, and sends nothing otherwise.
ThrottleMoreThan ==
  [][\A c \in Clients : \A p \in Positions :
       Draw(c, p.x, p.y) \/ MoveCursor(c, p.x, p.y) =>
         IF now - lastCursorUpdate[c] > ThrottleMs
         THEN /\ sent' = sent (+) SetToBag({CursorCall(c, p)})
              /\ lastCursorUpdate'[c] = now
         ELSE /\ sent' = sent
              /\ lastCursorUpdate'[c] = lastCursorUpdate[c]]_vars

\* The pointer, pressed, has just sent its position, ThrottleMs and one
\* pointer event after it sent the one before.
ThrottleMoreThanWitness ==
  \E c \in Clients :
    /\ currentStroke[c] # None
    /\ Len(currentStroke[c][1].points) = 2
    /\ lastCursorUpdate[c] = now
    /\ now = StartTime + ThrottleMs + PointerMs
    /\ \E r \in Calls("cursor-move") : r.from = c /\ CopiesIn(r, sent) = 2

\* The number of cursor-move calls client c has made.
CursorCalls(c) ==
  BagCardinality([r \in {k \in Calls("cursor-move") : k.from = c} |-> CopiesIn(r, sent)])

\* C15: a cursor-move is sent ThrottleMs or more after the one before of the
\* same client, draw and moveCursor sharing the time of the last one, so a
\* client has sent at most one and one more per ThrottleMs that have passed:
\* five in MaxElapsed = 200 ms.
ThrottleBound ==
  /\ [](\A c \in Clients :
          /\ CursorCalls(c) <= ((now - StartTime) \div ThrottleMs) + 1
          /\ lastCursorUpdate[c] <= now)
  /\ [][\A c \in Clients :
          /\ CursorCalls(c)' # CursorCalls(c) =>
               /\ CursorCalls(c)' = CursorCalls(c) + 1
               /\ now - lastCursorUpdate[c] >= ThrottleMs
               /\ lastCursorUpdate'[c] = now
          /\ lastCursorUpdate'[c] # lastCursorUpdate[c] =>
               CursorCalls(c)' = CursorCalls(c) + 1]_vars

\* Pointer events every PointerMs for MaxElapsed ms have sent four
\* cursor-move messages.
ThrottleBoundWitness ==
  \E c \in Clients :
    /\ CursorCalls(c) = 4
    /\ now <= StartTime + MaxElapsed

\* C16: a client that handles a sync-state, whether it has asked for the
\* state or not and whatever its log, has the strokes of the message as its
\* log afterwards, and no other log changes.
UnconditionalReplace ==
  [][\A c \in Clients : \A m \in Inbox(c) :
       HandleSyncState(c, m) =>
         /\ strokes'[c] = m.payload.strokes
         /\ \A d \in Clients \ {c} : strokes'[d] = strokes[d]]_vars

\* A user that never asked has handled the sync-state: its log is the
\* message's, without its own stroke, which the log it had noted still has.
UnconditionalReplaceWitness ==
  \E c \in Clients :
    /\ ~hasRequestedState[c]
    /\ \A m \in Inbox(c) : m.event # "sync-state"
    /\ \E r \in Calls("sync-state") : strokes[c] = r.payload.strokes
    /\ Len(strokes[c]) = 1
    /\ \E s \in Committed(c) : s \notin Range(strokes[c]) /\ s \in Range(strokesRef[c])

\* C17, as claimed: the sync-state a client sends when it handles a
\* req-state carries every stroke of its log at that moment, in log order,
\* and nothing else.
FullLogPayload ==
  [][\A c \in Clients : \A m \in Inbox(c) :
       HandleReqState(c, m) =>
         \A r \in NewCalls :
           /\ r.event = "sync-state"
           /\ Len(r.payload.strokes) = Len(strokes[c])
           /\ \A i \in 1..Len(strokes[c]) : r.payload.strokes[i] = strokes[c][i]]_vars

\* C18, as claimed: the online_at of a client's presence record is the
\* time it subscribed and no later presence update changes it, so the user
\* with the smallest online_at is the one that subscribed first of those in
\* the room.
JoinedAtFixed ==
  [][\A c \in Clients :
       presence[c] # None /\ presence'[c] # None =>
         presence'[c][1].online_at = presence[c][1].online_at]_vars

\* The place of client c in the order of subscription.
Rank(c) == CHOOSE i \in 1..Len(Turns) : Turns[i] = c

\* The user that subscribed before all those in the room has left.
HostGone ==
  \E h \in Clients : status[h] = "left" /\ \A d \in Joined : Rank(h) < Rank(d)

\* C19: the record of a user that left is in no registry, and a req-state
\* handled over the registry as it is after the first user left is answered,
\* with one sync-state, by the oldest of the records that remain and by
\* nobody else; the channel carries no other events than the four, and no
\* variable holds a host.
ImplicitFailover ==
  /\ [](/\ \A c \in Clients : status[c] = "left" => presence[c] = None
        /\ \A r \in BagToSet(sent) :
             r.event \in {"cursor-move", "draw-line", "req-state", "sync-state"})
  /\ [][\A c \in Clients : \A m \in Inbox(c) :
          /\ HandleReqState(c, m)
          /\ HostGone
          /\ presenceState[c] = Registry
          /\ DistinctTimes(Registry)
          /\ m.payload.requesterId # Oldest(Registry).user_id
          => IF c = Oldest(Registry).user_id
             THEN /\ \E r \in NewCalls : r.from = c /\ r.event = "sync-state"
                  /\ BagCardinality(sent') = BagCardinality(sent) + 1
             ELSE sent' = sent]_vars

\* The first user, who had seen the second come later, has left, and the
\* second user has answered a req-state.
ImplicitFailoverWitness ==
  /\ status["A"] = "left"
  /\ \E p, q \in presenceState["A"] :
       p.user_id = "A" /\ q.user_id = "B" /\ GetTime(p.online_at) < GetTime(q.online_at)
  /\ \E r \in Calls("sync-state") : r.from = "B"
  /\ \A r \in Calls("sync-state") : r.from # "C"

\* C20: endDrawing appends the stroke and empties the slot also when the
\* draw-line reaches nobody; the loss of a copy changes nothing in a client
\* and sends nothing, so a committed stroke stays in its author's log and is
\* sent once only.
SendFailureKeepsCommit ==
  /\ [](\A c \in Clients : \A s \in Committed(c) :
          /\ s \in Range(strokes[c])
          /\ CopiesIn(Call(c, "draw-line", s), sent) = 1)
  /\ [][/\ \A c \in Clients :
             currentStroke[c] # None /\ EndDrawing(c) /\ Receivers(c) = {} =>
               /\ strokes'[c] = Append(strokes[c], currentStroke[c][1])
               /\ currentStroke'[c] = None
               /\ net' = net
               /\ status' = status
        /\ \A m \in BagToSet(net) :
             Lose(m) =>
               /\ strokes' = strokes
               /\ currentStroke' = currentStroke
               /\ sent' = sent
               /\ status' = status]_vars

\* Both users are subscribed; the first has committed two strokes, of which
\* no copy is in flight and none has arrived.
SendFailureKeepsCommitWitness ==
  /\ Joined = {Drawer, Watcher}
  /\ Len(strokes[Drawer]) = 2
  /\ currentStroke[Drawer] = None
  /\ strokes[Watcher] = <<>>
  /\ \A m \in BagToSet(net) : m.event # "draw-line"

\* The entries of a peer-cursor list that belong to the peer id.
EntriesOf(list, id) == {e \in Range(list) : e.id = id}

\* C21: a peer-cursor list never holds two entries of one id, and the client
\* that handles a cursor-move has the payload as the only entry of its id
\* afterwards, the entries of the other ids being the ones it had; no other
\* client's list changes.
CursorLastWriteWins ==
  /\ [](\A c \in Clients : \A i, j \in 1..Len(peers[c]) :
          peers[c][i].id = peers[c][j].id => i = j)
  /\ [][\A c \in Clients : \A m \in Inbox(c) :
          HandleCursorMove(c, m) =>
            /\ EntriesOf(peers'[c], m.payload.id) = {m.payload}
            /\ \A d \in Clients \ {m.payload.id} :
                 EntriesOf(peers'[c], d) = EntriesOf(peers[c], d)
            /\ Len(peers'[c]) = Cardinality(Range(peers'[c]))
            /\ \A d \in Clients \ {c} : peers'[d] = peers[d]]_vars

\* The third user holds the cursors of the two others, each of whom has sent
\* both positions, the second in place of the first.
CursorLastWriteWinsWitness ==
  /\ status["C"] = "joined"
  /\ net = EmptyBag
  /\ Len(peers["C"]) = 2
  /\ \A d \in Board :
       /\ \A p \in Positions : CursorCall(d, p) \in Calls("cursor-move")
       /\ Cardinality(EntriesOf(peers["C"], d)) = 1

\* C22, as claimed: once a user has left and a client has handled the
\* presence change, the client's peer-cursor list holds no entry of that user.
DiscardOnDisconnect ==
  [][\A c, d \in Clients :
       status[d] = "left" /\ PresenceSync(c) => EntriesOf(peers'[c], d) = {}]_vars

\* The calls client c has made.
CallsOf(c) == {r \in BagToSet(sent) : r.from = c}

\* C23: no step changes a client's currentUser.id, and that id is the
\* user_id of the client's presence record, the requesterId of its
\* req-state, the id of its cursor-moves and the userId of every stroke it
\* has in the slot, commits or sends.
IdStable ==
  /\ [](\A c \in Clients :
          /\ presence[c] # None => presence[c][1].user_id = currentUser[c].id
          /\ currentStroke[c] # None => currentStroke[c][1].userId = currentUser[c].id
          /\ \A r \in CallsOf(c) :
               /\ r.event = "req-state" => r.payload.requesterId = currentUser[c].id
               /\ r.event = "cursor-move" => r.payload.id = currentUser[c].id
               /\ r.event = "draw-line" => r.payload.userId = currentUser[c].id)
  /\ [][\A c \in Clients :
          /\ currentUser'[c].id = currentUser[c].id
          /\ currentStroke[c] # None /\ EndDrawing(c) =>
               strokes'[c][Len(strokes'[c])].userId = currentUser'[c].id]_vars

\* The user has given its name after it subscribed, taken the eraser,
\* asked for the state, sent a cursor-move and committed a stroke.
IdStableWitness ==
  \E c \in Clients :
    /\ currentUser[c].name \in Names
    /\ presence[c] # None /\ presence[c][1].name = currentUser[c].name
    /\ currentUser[c].color = COLORS_ERASER
    /\ Requests(c) # {}
    /\ \E r \in CallsOf(c) : r.event = "cursor-move"
    /\ Committed(c) # {}
    /\ strokes[c] # <<>>

\* What setTool and setDisplayName of client c leave as it is.
SettingsFrame(c) ==
  /\ strokes' = strokes
  /\ currentStroke' = currentStroke
  /\ peers' = peers
  /\ hasRequestedState' = hasRequestedState
  /\ sent' = sent
  /\ net' = net
  /\ \A d \in Clients \ {c} : currentUser'[d] = currentUser[d]

\* C24: setTool(color, width) makes color and width of currentUser the given
\* ones and setDisplayName(name) makes its name the given one; each leaves
\* the other fields of currentUser, the logs, the slots, the peer cursors and
\* hasRequestedState as they are and sends nothing.
SettingsFrameOnly ==
  [][\A c \in Clients :
       /\ \A t \in Tools :
            SetTool(c, t.color, t.width) =>
              /\ currentUser'[c] = [id |-> currentUser[c].id, name |-> currentUser[c].name,
                                    color |-> t.color, width |-> t.width]
              /\ SettingsFrame(c)
       /\ \A name \in Names :
            SetDisplayName(c, name) =>
              /\ currentUser'[c] = [id |-> currentUser[c].id, name |-> name,
                                    color |-> currentUser[c].color,
                                    width |-> currentUser[c].width]
              /\ SettingsFrame(c)]_vars

\* The user has given its name and taken the eraser while a stroke begun
\* with the pen was in the slot, a request out and a cursor received.
SettingsFrameOnlyWitness ==
  \E c \in Clients :
    /\ currentUser[c] = [id |-> c, name |-> "Ann", color |-> COLORS_ERASER,
                         width |-> WIDTHS_ERASER]
    /\ currentStroke[c] # None
    /\ currentStroke[c][1].color = COLORS_BLACK
    /\ hasRequestedState[c]
    /\ \E d \in Clients \ {c} : peers[d] # <<>>

\* The client has an empty log, an empty slot, no peer cursors and no user
\* list, and has neither noted nor sent a req-state.
Fresh(c) ==
  /\ strokes[c] = <<>>
  /\ strokesRef[c] = <<>>
  /\ currentStroke[c] = None
  /\ peers[c] = <<>>
  /\ activeUsers[c] = <<>>
  /\ ~hasRequestedState[c]
  /\ CallsOf(c) = {}

\* C25: a client that has started and not yet subscribed has an empty log,
\* an empty slot, no peer cursors and has sent no req-state, whatever the
\* others have done in the room, and it is still so right after it
\* subscribes.
InitialState ==
  /\ [](\A c \in Clients : status[c] = "mounted" => Fresh(c))
  /\ [][\A c \in Clients : Subscribed(c) => Fresh(c)']_vars

\* The second user has just subscribed, with nothing yet, to a room in which
\* the first has a stroke in its log.
InitialStateWitness ==
  \E c, d \in Clients :
    /\ status[c] = "joined"
    /\ presenceState[c] = {}
    /\ Fresh(c)
    /\ strokes[d] # <<>>

\* The number of sync-state calls made so far.
SyncCalls ==
  BagCardinality([r \in Calls("sync-state") |-> CopiesIn(r, sent)])

\* C26, as claimed: a req-state of a client that is not the oldest member is
\* answered by one client at most, also when two records of the registry
\* have the same online_at: once a sync-state has been sent for the request,
\* no other client that handles the request sends one.
OneStateHolder ==
  [][\A c \in Clients : \A m \in Inbox(c) :
       /\ HandleReqState(c, m)
       /\ \E p \in Registry :
            /\ p.user_id # m.payload.requesterId
            /\ GetTime(p.online_at)
                 < GetTime(RecordOf(Registry, m.payload.requesterId).online_at)
       /\ SyncCalls >= 1
       => sent' = sent]_vars

\* C27: a client that handles a req-state naming itself as requester sends
\* nothing and changes nothing of its state, whether or not it is the first
\* of the sorted presences; the message is consumed and that is all.
NoSelfAnswer ==
  [][\A c \in Clients : \A m \in Inbox(c) :
       HandleReqState(c, m) /\ m.payload.requesterId = currentUser[c].id =>
         /\ sent' = sent
         /\ net' = Taken(net, m)
         /\ UNCHANGED <<hookVars, presence, presenceState, status>>]_vars

\* The user that subscribed before the two others has handled its own
\* request, still in flight to another user, and nothing has been sent.
NoSelfAnswerWitness ==
  \E r \in Clients :
    /\ \A q \in Registry : q.user_id # r =>
         GetTime(RecordOf(Registry, r).online_at) < GetTime(q.online_at)
    /\ Inbox(r) = {}
    /\ \E m \in BagToSet(net) : m.event = "req-state" /\ m.payload.requesterId = r
    /\ SyncCalls = 0

\* The request of client r is left without its host: r asked for the state
\* while the oldest user h of the snapshot r still holds was in the room,
\* and h has left without ever sending a sync-state.
Stalled(r) ==
  /\ status[r] = "joined"
  /\ Requests(r) # {}
  /\ presenceState[r] # {}
  /\ DistinctTimes(presenceState[r])
  /\ LET h == Oldest(presenceState[r]).user_id
     IN /\ h # r
        /\ status[h] = "left"
        /\ \A k \in Calls("sync-state") : k.from # h

\* C28, as claimed: once the host has left without answering a request, no
\* client that handles the request sends a sync-state for it.
HostLossStalls ==
  [][\A r \in Clients : \A c \in Clients : \A m \in Inbox(c) :
       /\ Stalled(r)
       /\ HandleReqState(c, m)
       /\ m.payload.requesterId = r
       => sent' = sent]_vars

\* The snapshot of client c still holds the record of user h as its oldest.
StillSees(c, h) ==
  /\ DistinctTimes(presenceState[c])
  /\ \E p \in presenceState[c] : p.user_id = h
  /\ Oldest(presenceState[c]).user_id = h

\* C28, amended: once the host has left without answering a request, the
\* requester sends no second req-state at any presence sync, its log changes
\* only by a sync-state it handles, and it stays subscribed until it leaves
\* itself; a member that handles the request while its snapshot still holds
\* the host sends nothing, and with nobody else in the room no step sends
\* anything at all.
HostLossNoRetry ==
  [][\A r \in Clients :
       Stalled(r) =>
         /\ PresenceSync(r) => sent' = sent /\ hasRequestedState'[r]
         /\ Requests(r)' = Requests(r)
         /\ strokes'[r] # strokes[r] => \E m \in Inbox(r) : HandleSyncState(r, m)
         /\ status'[r] # status[r] => Leave(r)
         /\ \A c \in Clients \ {r} : \A m \in Inbox(c) :
              /\ HandleReqState(c, m)
              /\ m.payload.requesterId = r
              /\ StillSees(c, Oldest(presenceState[r]).user_id)
              => sent' = sent
         /\ Joined = {r} => sent' = sent]_vars

\* The first user has left without a sync-state; the second, who still sees
\* it, has handled the request of the third, and nothing is in flight: the
\* third user waits, and has seen presence change since it asked.
HostLossNoRetryWitness ==
  /\ status["A"] = "left"
  /\ Stalled("C")
  /\ status["B"] = "joined"
  /\ StillSees("B", "A")
  /\ net = EmptyBag
  /\ SyncCalls = 0
  /\ Cardinality(presenceState["C"]) = 3

\* The records of other users in the snapshot client c holds.
Others(c) == {p \in presenceState[c] : p.user_id # currentUser[c].id}

\* C29: a client sends req-state, and sets hasRequestedState, only in a
\* presence sync whose snapshot holds the record of another user; as long as
\* hasRequestedState is unset the client has sent no req-state and has never
\* held a snapshot with another user's record.
RequestNeedsCompany ==
  /\ [](\A c \in Clients :
          ~hasRequestedState[c] => Requests(c) = {} /\ Others(c) = {})
  /\ [][\A c \in Clients :
          Requests(c)' # Requests(c) \/ hasRequestedState'[c] # hasRequestedState[c]
            => PresenceSync(c) /\ Others(c)' # {}]_vars

\* The first user has handled a presence sync that listed itself alone and
\* has not asked; the user that came after it has seen both and has asked.
RequestNeedsCompanyWitness ==
  \E c, d \in Clients :
    /\ status[c] = "joined"
    /\ presenceState[c] = {presence[c][1]}
    /\ Len(activeUsers[c]) = 1
    /\ ~hasRequestedState[c] /\ Requests(c) = {}
    /\ hasRequestedState[d] /\ Cardinality(Others(d)) = 1

\* The places of the log that hold a stroke of the id.
PlacesOf(log, id) == {i \in 1..Len(log) : log[i].id = id}

\* C30: the client that handles a draw-line has its log with the stroke
\* added at the end afterwards, whether or not the log holds a stroke of
\* that id already: the log then holds the id at one more place than
\* before.
NoDeduplication ==
  [][\A c \in Clients : \A m \in Inbox(c) :
       HandleDrawLine(c, m) =>
         /\ strokes'[c] = Append(strokes[c], m.payload)
         /\ Cardinality(PlacesOf(strokes'[c], m.payload.id))
              = Cardinality(PlacesOf(strokes[c], m.payload.id)) + 1]_vars

\* A stroke has reached a client twice, in a sync-state and in its
\* draw-line, and is in that client's log twice.
NoDeduplicationWitness ==
  \E c \in Clients :
    /\ Len(strokes[c]) = 2
    /\ strokes[c][1] = strokes[c][2]
    /\ strokes[c][1].userId # c

\* The strokes of a log, each as many times as the log holds it.
SeqBag(log) == [st \in Range(log) |-> Cardinality({i \in 1..Len(log) : log[i] = st})]

\* The strokes of the draw-lines in flight to client c, each as many times
\* as there are copies of it.
InFlightBag(c) ==
  [st \in {m.payload : m \in {k \in Inbox(c) : k.event = "draw-line"}} |->
     CopiesIn([to |-> c, event |-> "draw-line", payload |-> st], net)]

\* C31: with no sync-state handled, the strokes of a client's log together
\* with those still in flight to it are the strokes committed in the room,
\* each as many times, whatever the order the draw-lines were handled in; so
\* once all are handled the logs of the two users hold the same strokes the
\* same number of times, in whatever order, and each handled draw-line moves
\* one stroke from flight into the log.
ReorderAbsorbed ==
  /\ [](\A c, d \in Board :
          SeqBag(strokes[c]) (+) InFlightBag(c) = SeqBag(strokes[d]) (+) InFlightBag(d))
  /\ [][\A c \in Board : \A m \in Inbox(c) :
          HandleDrawLine(c, m) =>
            /\ SeqBag(strokes'[c]) = SeqBag(strokes[c]) (+) SetToBag({m.payload})
            /\ InFlightBag(c)' (+) SetToBag({m.payload}) = InFlightBag(c)]_vars

\* The second user has handled the two draw-lines of the first in the order
\* opposite to the one they were sent in.
ReorderAbsorbedWitness ==
  /\ net = EmptyBag
  /\ Len(strokes["A"]) = 2
  /\ strokes["A"][1] # strokes["A"][2]
  /\ \A i \in 1..2 : strokes["A"][i].userId = "A"
  /\ strokes["B"] = <<strokes["A"][2], strokes["A"][1]>>

\* C32: a draw or moveCursor call made while the throttle is shut sends
\* nothing, leaves the time of the last broadcast as it is and keeps nothing
\* of the position but the point draw adds to a stroke in progress; a
\* cursor-move is sent only within such a call, with the coordinates of that
\* call, and never by the passing of time.
DroppedNotQueued ==
  [][/\ \A c \in Clients : \A p \in Positions :
          (Draw(c, p.x, p.y) \/ MoveCursor(c, p.x, p.y)) /\ ~ThrottleOpen(c) =>
            /\ sent' = sent
            /\ net' = net
            /\ lastCursorUpdate' = lastCursorUpdate
            /\ <<strokes, peers, activeUsers, currentUser, strokesRef,
                 hasRequestedState>>' =
               <<strokes, peers, activeUsers, currentUser, strokesRef,
                 hasRequestedState>>
            /\ MoveCursor(c, p.x, p.y) => currentStroke' = currentStroke
     /\ \A r \in NewCalls :
          r.event = "cursor-move" =>
            \E c \in Clients : \E p \in Positions :
              /\ Draw(c, p.x, p.y) \/ MoveCursor(c, p.x, p.y)
              /\ r = CursorCall(c, p)
              /\ NewCalls = {r}
     /\ Elapse => sent' = sent /\ net' = net]_vars

\* A cursor-move for one position has been sent, a move to the other has
\* been dropped while a stroke was in progress, and more than the throttle
\* interval later nothing has been sent for it.
DroppedNotQueuedWitness ==
  \E c \in Clients :
    /\ now - lastCursorUpdate[c] > ThrottleMs
    /\ lastCursorUpdate[c] = StartTime
    /\ CursorCalls(c) = 1
    /\ currentStroke[c] # None
    /\ Len(currentStroke[c][1].points) = 2
    /\ \E r \in Calls("cursor-move") :
         [x |-> r.payload.x, y |-> r.payload.y] # currentStroke[c][1].points[2]

\* Every copy of a stroke there is: in the logs, in the draw-lines and
\* sync-states in flight, and in the draw-line and sync-state calls made.
AllCopies ==
  UNION {Range(strokes[c]) : c \in Clients}
  \cup UNION {Range(strokesRef[c]) : c \in Clients}
  \cup {m.payload : m \in {k \in BagToSet(net) : k.event = "draw-line"}}
  \cup UNION {Range(m.payload.strokes) : m \in {k \in BagToSet(net) : k.event = "sync-state"}}
  \cup {r.payload : r \in Calls("draw-line")}
  \cup UNION {Range(r.payload.strokes) : r \in Calls("sync-state")}

\* C33: all copies of a stroke of one id, in logs, draw-lines and
\* sync-states, are the stroke its author committed, with that author,
\* colour, width and points; no step changes an element of a log in place,
\* and what a handler adds to a log is a copy of a committed stroke.
CommittedImmutable ==
  /\ [](\A s1, s2 \in AllCopies : s1.id = s2.id => s1 = s2)
  /\ [](\A st \in AllCopies : st \in Committed(st.userId))
  /\ [][\A c \in Clients : \A i \in 1..Len(strokes[c]) :
          \/ i <= Len(strokes'[c]) /\ strokes'[c][i] = strokes[c][i]
          \/ \E m \in Inbox(c) : HandleSyncState(c, m)]_vars

\* A stroke of two points made with the eraser is in its author's log and in
\* the other user's, and a sync-state has carried it.
CommittedImmutableWitness ==
  \E c \in Clients : \E d \in Clients \ {c} :
    /\ Len(strokes[c]) = 1
    /\ strokes[c][1].userId = c
    /\ Len(strokes[c][1].points) = 2
    /\ strokes[c][1].color = COLORS_ERASER
    /\ strokes[d] = strokes[c]
    /\ \E r \in Calls("sync-state") : r.payload.strokes = strokes[c]

\* C34, as claimed: on a transport that delivers every copy once, each
\* stroke being broadcast once by its author, no log ever holds a stroke id
\* at two places, however draw-lines and sync-states interleave.
DuplicateFree ==
  \A c \in Clients : \A i, j \in 1..Len(strokes[c]) :
    strokes[c][i].id = strokes[c][j].id => i = j

\* C35: with the slot empty, draw leaves it empty and mouse up or mouse
\* leave append nothing, send no draw-line and leave it empty; a stroke is
\* therefore committed once, by the first release after its press, however
\* many releases follow.
IdleClosed ==
  /\ [](\A c \in Clients :
          /\ \A i, j \in 1..Len(strokes[c]) :
               strokes[c][i].id = strokes[c][j].id => i = j
          /\ \A r \in Calls("draw-line") : CopiesIn(r, sent) = 1
          /\ Len(strokes[c]) = Cardinality(Committed(c)))
  /\ [][\A c \in Clients :
          currentStroke[c] = None =>
            /\ \A p \in Surface :
                 Draw(c, p.x, p.y) =>
                   /\ currentStroke'[c] = None
                   /\ strokes' = strokes
                   /\ Calls("draw-line")' = Calls("draw-line")
            /\ HandleMouseUp(c) \/ OnMouseLeave(c) =>
                 /\ currentStroke'[c] = None
                 /\ strokes' = strokes
                 /\ sent' = sent
                 /\ net' = net]_vars

\* Two strokes have been committed, once each, and the pointer has moved
\* with the button up since: a cursor-move for a point of no stroke is out.
IdleClosedWitness ==
  \E c \in Clients :
    /\ currentStroke[c] = None
    /\ Len(strokes[c]) = 2
    /\ Cardinality(Committed(c)) = 2
    /\ \E r \in Calls("cursor-move") :
         \A i \in 1..2 : \A k \in 1..Len(strokes[c][i].points) :
           strokes[c][i].points[k] # [x |-> r.payload.x, y |-> r.payload.y]

\* The ids a client has made that are in its slot, in a log or in a
\* draw-line call.
Live(c) ==
  {k \in 1..uuids[c] :
     \/ currentStroke[c] # None /\ currentStroke[c][1].id = <<c, k>>
     \/ \E d \in Clients : \E i \in 1..Len(strokes[d]) : strokes[d][i].id = <<c, k>>
     \/ \E r \in Calls("draw-line") : r.payload.id = <<c, k>>}

\* C36: a press while a stroke is in the slot puts a one-point stroke with
\* an id of its own there, at the point of the press; the stroke it replaces
\* is appended to no log and sent to nobody, then or later, and the slot
\* holds one stroke.
PressReplaces ==
  [][\A c \in Clients :
       /\ \A p \in Surface :
            currentStroke[c] # None /\ StartDrawing(c, p.x, p.y) =>
              /\ currentStroke'[c] # None
              /\ currentStroke'[c][1].points = <<p>>
              /\ currentStroke'[c][1].id # currentStroke[c][1].id
              /\ currentStroke'[c][1].id[2] \notin Live(c)
              /\ strokes' = strokes
              /\ sent' = sent
              /\ net' = net
       /\ \A k \in 1..uuids[c] : k \notin Live(c) => k \notin Live(c)']_vars

\* A second press came before any release: the slot holds the second stroke
\* this user made, with points added since, and the first is nowhere.
PressReplacesWitness ==
  \E c \in Clients :
    /\ currentStroke[c] # None
    /\ currentStroke[c][1].id = <<c, 2>>
    /\ Len(currentStroke[c][1].points) = 2
    /\ Live(c) = {2}
    /\ strokes[c] = <<>>
    /\ Calls("draw-line") = {}

\* C37: while a stroke is in the slot of a client, the draw-line, sync-state,
\* req-state and cursor-move handlers and the presence handler of that client
\* leave the slot as it is; a sync-state makes the log its payload meanwhile,
\* and the release appends the stroke to the log it finds.
SlotUntouched ==
  [][\A c \in Clients :
       currentStroke[c] # None =>
         /\ \A m \in Inbox(c) :
              /\ \/ HandleDrawLine(c, m)
                 \/ HandleSyncState(c, m)
                 \/ HandleReqState(c, m)
                 \/ HandleCursorMove(c, m)
                 => currentStroke'[c] = currentStroke[c]
              /\ HandleSyncState(c, m) => strokes'[c] = m.payload.strokes
         /\ PresenceSync(c) => currentStroke'[c] = currentStroke[c]
         /\ EndDrawing(c) =>
              strokes'[c] = Append(strokes[c], currentStroke[c][1])]_vars

\* The first user holds its own two-point stroke and nothing else, after
\* the draw-line of the other user's dot and a sync-state both reached it.
SlotUntouchedWitness ==
  /\ Len(strokes[Drawer]) = 1
  /\ strokes[Drawer][1].id = <<Drawer, 1>>
  /\ Len(strokes[Drawer][1].points) = 2
  /\ Inbox(Drawer) = {}
  /\ Calls("sync-state") # {}
  /\ hasRequestedState[Watcher]
  /\ peers[Drawer] # <<>>

\* The user whose record is older than every other record of the registry,
\* if there is one.
Eldest ==
  {c \in Joined :
     /\ presence[c] # None
     /\ \A q \in Registry : q.user_id # c =>
          GetTime(presence[c][1].online_at) < GetTime(q.online_at)}

\* C38: a req-state of the oldest member, handled by a client whose snapshot
\* has pairwise distinct online_at and names the requester as its oldest, is
\* answered with nothing and changes no log; as long as the registry names
\* one user as older than all others, every sync-state sent is that user's,
\* none is in flight to it, and its log only grows.
FirstBoardSurvives ==
  /\ [](\A h \in Eldest :
          /\ \A r \in Calls("sync-state") : r.from = h
          /\ \A m \in Inbox(h) : m.event # "sync-state")
  /\ [][/\ \A c \in Clients : \A m \in Inbox(c) :
            /\ HandleReqState(c, m)
            /\ presenceState[c] # {}
            /\ DistinctTimes(presenceState[c])
            /\ m.payload.requesterId = Oldest(presenceState[c]).user_id
            => /\ sent' = sent
               /\ strokes' = strokes
               /\ net' = Taken(net, m)
         /\ \A h \in Eldest :
              /\ Len(strokes'[h]) >= Len(strokes[h])
              /\ SubSeq(strokes'[h], 1, Len(strokes[h])) = strokes[h]]_vars

\* The first user has a stroke on its board and has asked for the state on
\* seeing the second, who is younger by the registry and by its own snapshot;
\* the request has been handled and nobody has sent a sync-state.
FirstBoardSurvivesWitness ==
  \E h \in Eldest :
    /\ Cardinality(Registry) = 2
    /\ strokes[h] # <<>>
    /\ Requests(h) # {}
    /\ \A m \in BagToSet(net) : m.event # "req-state"
    /\ \A d \in Joined : presenceState[d] = Registry
    /\ Calls("sync-state") = {}

\* C39: the stroke a press puts in the slot has the colour and width of
\* currentUser at the press; setTool leaves the slot as it is, the stroke in
\* the slot keeps its colour and width as long as it is there, and the
\* release appends and sends it with that colour and width.
ToolFixedAtPress ==
  [][\A c \in Clients :
       /\ StartDrawing(c, 0, 0) =>
            /\ currentStroke'[c][1].color = currentUser[c].color
            /\ currentStroke'[c][1].width = currentUser[c].width
       /\ currentStroke[c] # None =>
            /\ \A t \in Tools :
                 SetTool(c, t.color, t.width) => currentStroke'[c] = currentStroke[c]
            /\ currentStroke'[c] # None
                 /\ currentStroke'[c][1].id = currentStroke[c][1].id =>
                   /\ currentStroke'[c][1].color = currentStroke[c][1].color
                   /\ currentStroke'[c][1].width = currentStroke[c][1].width
            /\ EndDrawing(c) =>
                 LET s == strokes'[c][Len(strokes'[c])]
                 IN /\ Len(strokes'[c]) = Len(strokes[c]) + 1
                    /\ s.id = currentStroke[c][1].id
                    /\ s.color = currentStroke[c][1].color
                    /\ s.width = currentStroke[c][1].width
                    /\ NewCalls = {Call(c, "draw-line", s)}]_vars

\* A stroke begun with the eraser is in the slot with a second point, and
\* the pen has been selected since the press.
ToolFixedAtPressWitness ==
  \E c \in Clients :
    /\ currentStroke[c] # None
    /\ currentStroke[c][1].color = COLORS_ERASER
    /\ currentStroke[c][1].width = WIDTHS_ERASER
    /\ Len(currentStroke[c][1].points) = 2
    /\ currentUser[c].color = COLORS_BLACK
    /\ currentUser[c].width = WIDTHS_PEN

====
